---------------------------- MODULE Spec2Model ----------------------------
(***************************************************************************)
(* The natural-language query pipeline of the expenses tracker             *)
(* (src/backend_py/chatbot): security validation, SQL generation and       *)
(* repair, query execution, and the orchestrating ChatbotService.          *)
(*                                                                         *)
(* Text is modelled character by character: a Python str is a sequence of  *)
(* one-character strings, and find/replace/strip/regular expressions are   *)
(* computed on the characters as the Python code computes them.  Indices   *)
(* are Python's (0-based; find returns -1 when there is no match).         *)
(***************************************************************************)
EXTENDS Integers, Sequences, FiniteSets, TLC

VARIABLES
  pc,         \* control position of the request / of the function under check
  text,       \* the message text given to process_message
  user_id,    \* the caller's identity
  history,    \* the conversation history (a sequence of turns)
  llm_text,   \* what the generation model returned to QueryGenerator.generate
  extracted_sql, \* what _extract_sql returned inside generate
  sql,        \* the SQL string in hand (extracted, repaired, validated)
  valid,      \* the last result of validate_sql: <<is_valid, reason>>
  validated,  \* SQL strings validate_sql accepted during this request
  executed,   \* <<sql, user_id>> pairs handed to QueryExecutor.execute
  sent,       \* statements sent to the database (conn.fetch)
  db_rows,    \* the rows the database returned
  results,    \* the rows QueryExecutor.execute returned
  raised,     \* the exception in flight: <<kind, message>>, or NoException
  responses,  \* the ChatResponse values process_message returned
  escaped,    \* TRUE once an exception has left process_message
  log,        \* what was written to the log
  calls,      \* the stages and generation-model calls invoked, in order
  intents,    \* the intents IntentDetector.detect returned, in call order
  fmt_text,   \* what the generation model returned to ResponseFormatter.format
  requests,   \* concurrent requests: the locals of each process_message call
  executor,   \* ChatbotService.executor, shared by all requests
  prompt_rows,  \* the rows ResponseFormatter.format gave to the generation model
  neon_pool,  \* NeonConfig._pool of the shared configuration object
  pool_callers, \* callers of NeonConfig.get_pool: position and result of each
  db_tables,  \* the accounts and transactions rows of one user
  appliers    \* calls of apply_fixed_expenses_for_month: the locals of each

vars == <<pc, text, user_id, history, llm_text, extracted_sql, sql, valid,
          validated, executed, sent, db_rows, results, raised, responses, escaped, log,
          calls, intents, fmt_text, requests, executor, prompt_rows, neon_pool,
          pool_callers, db_tables, appliers>>

\* Python's None where a str is expected: a text that no str equals
None == <<"None">>
\* a fixed message of the program, kept whole
Text(message) == <<message>>
\* an Optional[List[...]] field: NoData is None, Data(rows) a list
NoData == << >>
Data(rows) == <<rows>>
\* no reply of the generation model yet
NoOutcome == <<"none", << >>>>
NoException == <<"none", "">>

---------------------------------------------------------------------------
(* Python str operations, on sequences of characters.                      *)

UpperLetters ==
  <<"A","B","C","D","E","F","G","H","I","J","K","L","M",
    "N","O","P","Q","R","S","T","U","V","W","X","Y","Z",
    "Á","É","Í","Ó","Ú","Ñ">>
LowerLetters ==
  <<"a","b","c","d","e","f","g","h","i","j","k","l","m",
    "n","o","p","q","r","s","t","u","v","w","x","y","z",
    "á","é","í","ó","ú","ñ">>
Digits == {"0","1","2","3","4","5","6","7","8","9"}
Whitespace == {" ", "\n", "\t", "\r"}
LetterSet ==
  {UpperLetters[i] : i \in 1..Len(UpperLetters)}
    \cup {LowerLetters[i] : i \in 1..Len(LowerLetters)}

\* str.lower() on one character
ToLower == [c \in {UpperLetters[i] : i \in 1..Len(UpperLetters)} |->
              LowerLetters[CHOOSE i \in 1..Len(UpperLetters) : UpperLetters[i] = c]]
LowerChar(c) == IF c \in DOMAIN ToLower THEN ToLower[c] ELSE c

\* str.lower()
lower(s) == [i \in 1..Len(s) |-> LowerChar(s[i])]

\* \s and \w and \d of the re module
IsSpace(c) == c \in Whitespace
IsWordChar(c) == c \in LetterSet \/ c \in Digits \/ c = "_"
IsDigit(c) == c \in Digits

\* s[k:] and s[:k] for 0 <= k
SliceFrom(s, k) == IF k >= Len(s) THEN << >> ELSE SubSeq(s, k + 1, Len(s))
SliceTo(s, k) == IF k >= Len(s) THEN s ELSE SubSeq(s, 1, k)

\* sub occurs in s at (0-based) index i
MatchAt(s, sub, i) ==
  /\ i >= 0
  /\ i + Len(sub) <= Len(s)
  /\ \A k \in 1..Len(sub) : s[i + k] = sub[k]

\* s.find(sub, start): the lowest index >= start where sub occurs, else -1
find(s, sub, start) ==
  LET hits == {i \in start..(Len(s) - Len(sub)) : MatchAt(s, sub, i)}
  IN IF hits = {} THEN -1 ELSE CHOOSE i \in hits : \A j \in hits : i <= j

\* sub in s
Contains(s, sub) == find(s, sub, 0) >= 0

startswith(s, p) == MatchAt(s, p, 0)
endswith(s, p) == MatchAt(s, p, Len(s) - Len(p))

\* str.lstrip(), str.rstrip(), str.strip()
RECURSIVE lstrip(_)
lstrip(s) == IF s # << >> /\ IsSpace(Head(s)) THEN lstrip(Tail(s)) ELSE s
RECURSIVE rstrip(_)
rstrip(s) ==
  IF s # << >> /\ IsSpace(s[Len(s)]) THEN rstrip(SubSeq(s, 1, Len(s) - 1)) ELSE s
\* a variant of strip that removes nothing
strip_nothing(s) == s
strip(s) == lstrip(rstrip(s))

\* str.rstrip(c) for one character c
RECURSIVE rstripChar(_, _)
rstripChar(s, c) ==
  IF s # << >> /\ s[Len(s)] = c THEN rstripChar(SubSeq(s, 1, Len(s) - 1), c) ELSE s

\* str.replace(old, new): every non-overlapping occurrence, left to right
RECURSIVE replace(_, _, _)
replace(s, old, new) ==
  LET i == find(s, old, 0)
  IN IF i < 0 THEN s
     ELSE SliceTo(s, i) \o new \o replace(SliceFrom(s, i + Len(old)), old, new)

\* the index of the first character at or after i that is not whitespace
RECURSIVE SkipSpaces(_, _)
SkipSpaces(s, i) ==
  IF i < Len(s) /\ IsSpace(s[i + 1]) THEN SkipSpaces(s, i + 1) ELSE i
RECURSIVE SkipDigits(_, _)
SkipDigits(s, i) ==
  IF i < Len(s) /\ IsDigit(s[i + 1]) THEN SkipDigits(s, i + 1) ELSE i

\* the regular expression \b at index i (between s[i-1] and s[i], 0-based)
WordAt(s, i) == i >= 0 /\ i < Len(s) /\ IsWordChar(s[i + 1])
WordBoundary(s, i) == WordAt(s, i - 1) # WordAt(s, i)

Placeholder == <<"{","{","u","s","e","r","_","i","d","}","}">>
Select == <<"s","e","l","e","c","t">>

---------------------------------------------------------------------------
(* SecurityValidator (chatbot/security.py)                                 *)

DANGEROUS_KEYWORDS ==
  << <<"d","r","o","p">>,
     <<"d","e","l","e","t","e">>,
     <<"u","p","d","a","t","e">>,
     <<"i","n","s","e","r","t">>,
     <<"a","l","t","e","r">>,
     <<"t","r","u","n","c","a","t","e">>,
     <<"e","x","e","c">>,
     <<"e","x","e","c","u","t","e">>,
     <<"i","n","t","o"," ","o","u","t","f","i","l","e">>,
     <<"l","o","a","d","_","f","i","l","e">>,
     <<"c","r","e","a","t","e">>,
     <<"g","r","a","n","t">>,
     <<"r","e","v","o","k","e">>,
     <<"c","o","m","m","i","t">>,
     <<"r","o","l","l","b","a","c","k">>,
     <<"s","a","v","e","p","o","i","n","t">>,
     <<"s","e","t"," ">>,
     <<"c","a","l","l"," ">>,
     <<"c","o","p","y"," ">>,
     <<"d","o"," ">>,
     <<"l","o","c","k"," ">>,
     <<"v","a","c","u","u","m">>,
     <<"r","e","i","n","d","e","x">>,
     <<"c","l","u","s","t","e","r">>,
     <<"c","o","m","m","e","n","t"," ","o","n">>,
     <<"s","e","c","u","r","i","t","y"," ","d","e","f","i","n","e","r">>,
     <<"p","g","_">>,
     <<"i","n","f","o","r","m","a","t","i","o","n","_","s","c","h","e","m","a">> >>

MAX_QUERY_LENGTH == 2000

\* ;\s*(?:drop|delete|update|insert|alter|truncate)
MutatingVerbs ==
  { <<"d","r","o","p">>,
    <<"d","e","l","e","t","e">>,
    <<"u","p","d","a","t","e">>,
    <<"i","n","s","e","r","t">>,
    <<"a","l","t","e","r">>,
    <<"t","r","u","n","c","a","t","e">> }
SemicolonVerbAt(s, i) ==
  /\ MatchAt(s, <<";">>, i)
  /\ \E v \in MutatingVerbs : MatchAt(s, v, SkipSpaces(s, i + 1))

\* union\s+(?:all\s+)?select
UnionSelectAt(s, i) ==
  /\ MatchAt(s, <<"u","n","i","o","n">>, i)
  /\ i + 5 < Len(s) /\ IsSpace(s[i + 6])
  /\ LET j == SkipSpaces(s, i + 5)
     IN \/ MatchAt(s, Select, j)
        \/ /\ MatchAt(s, <<"a","l","l">>, j)
           /\ j + 3 < Len(s) /\ IsSpace(s[j + 4])
           /\ MatchAt(s, Select, SkipSpaces(s, j + 3))

\* '\s*or\s+'?\d*'?\s*=\s*'?\d*   (what follows the = always matches)
QuoteOrAt(s, i) ==
  /\ MatchAt(s, <<"'">>, i)
  /\ LET o == SkipSpaces(s, i + 1)
     IN /\ MatchAt(s, <<"o","r">>, o)
        /\ o + 2 < Len(s) /\ IsSpace(s[o + 3])
        /\ LET a == SkipSpaces(s, o + 2)
               b == IF MatchAt(s, <<"'">>, a) THEN a + 1 ELSE a
               c == SkipDigits(s, b)
               d == IF MatchAt(s, <<"'">>, c) THEN c + 1 ELSE c
           IN MatchAt(s, <<"=">>, SkipSpaces(s, d))

\* '\s*;\s*--
QuoteSemicolonCommentAt(s, i) ==
  /\ MatchAt(s, <<"'">>, i)
  /\ LET j == SkipSpaces(s, i + 1)
     IN /\ MatchAt(s, <<";">>, j)
        /\ MatchAt(s, <<"-","-">>, SkipSpaces(s, j + 1))

\* self._dangerous_pattern.search(s): DANGEROUS_INPUT_PATTERNS joined by |,
\* compiled with re.IGNORECASE
dangerous_pattern_search(s) ==
  LET t == lower(s)
  IN \/ Contains(t, <<"-","-">>)
     \/ Contains(t, <<"/","*">>)
     \/ Contains(t, <<"*","/">>)
     \/ \E i \in 0..(Len(t) - 1) :
          \/ SemicolonVerbAt(t, i)
          \/ UnionSelectAt(t, i)
          \/ QuoteOrAt(t, i)
          \/ QuoteSemicolonCommentAt(t, i)

\* a variant of keyword_search without the word boundaries: keyword in s
keyword_search_anywhere(keyword, s) == Contains(s, keyword)

\* re.search(r"\b" + re.escape(keyword) + r"\b", s)
keyword_search(keyword, s) ==
  \E i \in 0..(Len(s) - Len(keyword)) :
    /\ MatchAt(s, keyword, i)
    /\ WordBoundary(s, i)
    /\ WordBoundary(s, i + Len(keyword))

\* re.search(r";\s*select", s)
semicolon_select_search(s) ==
  \E i \in 0..(Len(s) - 1) :
    MatchAt(s, <<";">>, i) /\ MatchAt(s, Select, SkipSpaces(s, i + 1))

\* the loop over DANGEROUS_KEYWORDS of validate_sql
dangerous_keyword_in_sql(sql_lower) ==
  \E k \in 1..Len(DANGEROUS_KEYWORDS) : keyword_search(DANGEROUS_KEYWORDS[k], sql_lower)

\* SecurityValidator.validate_sql(sql, user_id) -> (is_valid, error_message)
validate_sql(s, uid) ==
  LET sql_clean == strip(s)
      sql_lower == lower(sql_clean)
  IN IF s = None \/ s = << >> \/ sql_clean = << >>
       THEN <<FALSE, "Empty SQL query">>
     ELSE IF Len(sql_clean) > MAX_QUERY_LENGTH
       THEN <<FALSE, "Query too complex">>
     ELSE IF ~startswith(lstrip(sql_lower), Select)
       THEN <<FALSE, "Only SELECT queries are allowed">>
     ELSE IF dangerous_keyword_in_sql(sql_lower)
       THEN <<FALSE, "Invalid query detected">>
     ELSE IF dangerous_pattern_search(sql_clean)
       THEN <<FALSE, "Invalid query detected">>
     ELSE IF semicolon_select_search(sql_lower)
       THEN <<FALSE, "Multiple statements not allowed">>
     ELSE IF ~Contains(sql_clean, Placeholder)
       THEN <<FALSE, "Query must include user filter">>
     ELSE <<TRUE, "">>

---------------------------------------------------------------------------
(* QueryGenerator (chatbot/query_generator.py)                             *)

\* the character ` (U+0060), which a TLA+ string cannot hold
Backtick == "BACKTICK"
Fence == <<Backtick, Backtick, Backtick>>
FenceSql == <<Backtick, Backtick, Backtick, "s","q","l">>

\* str.split("\n")
RECURSIVE split_lines(_)
split_lines(s) ==
  LET i == find(s, <<"\n">>, 0)
  IN IF i < 0 THEN <<s>>
     ELSE <<SliceTo(s, i)>> \o split_lines(SliceFrom(s, i + 1))

\* "\n".join(lines)
RECURSIVE join_lines(_)
join_lines(lines) ==
  IF lines = << >> THEN << >>
  ELSE IF Len(lines) = 1 THEN lines[1]
  ELSE lines[1] \o <<"\n">> \o join_lines(Tail(lines))

\* the fenced code block of _extract_sql: the text between the fences, or
\* the text itself when there is no (closed, non-empty) block
unfence(t) ==
  IF Contains(lower(t), FenceSql)
    THEN LET start == find(lower(t), FenceSql, 0) + 6
             end == find(t, Fence, start)
         IN IF end > start THEN strip(SubSeq(t, start + 1, end)) ELSE t
  ELSE IF Contains(t, Fence)
    THEN LET start == find(t, Fence, 0) + 3
             end == find(t, Fence, start)
         IN IF end > start THEN strip(SubSeq(t, start + 1, end)) ELSE t
  ELSE t

\* the for loop of _extract_sql over the lines from index i on
RECURSIVE collect_sql_lines(_, _, _)
collect_sql_lines(lines, i, in_sql) ==
  IF i > Len(lines) THEN << >>
  ELSE LET line == lines[i]
           now_in == in_sql \/ startswith(lower(strip(line)), Select)
       IN IF ~now_in THEN collect_sql_lines(lines, i + 1, FALSE)
          ELSE IF Contains(line, <<";">>) THEN <<line>>
          ELSE <<line>> \o collect_sql_lines(lines, i + 1, TRUE)

with_semicolon(s) == IF endswith(s, <<";">>) THEN s ELSE s \o <<";">>

\* QueryGenerator._extract_sql(text) -> sql | None
extract_sql(t0) ==
  IF t0 = None \/ t0 = << >> THEN None
  ELSE LET t == unfence(strip(t0))
           sql_lines == collect_sql_lines(split_lines(t), 1, FALSE)
       IN IF sql_lines # << >> THEN with_semicolon(strip(join_lines(sql_lines)))
          ELSE IF startswith(lower(t), Select) THEN with_semicolon(strip(t))
          ELSE None

UserIdColumn == <<"u","s","e","r","_","i","d">>
TUserIdColumn == <<"t",".","u","s","e","r","_","i","d">>
WhereWord == <<" ","w","h","e","r","e"," ">>
FromWord == <<" ","f","r","o","m"," ">>
InjectedCondition == <<"t",".","u","s","e","r","_","i","d"," ","="," ","'","{","{","u","s","e","r","_","i","d","}","}","'"," ","A","N","D"," ">>
InjectedWhere == <<" ","W","H","E","R","E"," ","t",".","u","s","e","r","_","i","d"," ","="," ","'","{","{","u","s","e","r","_","i","d","}","}","'"," ">>
QuadPlaceholder == <<"{","{","{","{","u","s","e","r","_","i","d","}","}","}","}">>

\* the " where " branch of _ensure_user_id_placeholder
inject_after_where(s) ==
  LET sql_lower == lower(s)
      where_idx == find(sql_lower, WhereWord, 0)
      before_where == SliceTo(s, where_idx + 7)
      after_where == SliceFrom(s, where_idx + 7)
  IN IF ~Contains(sql_lower, TUserIdColumn) /\ ~Contains(sql_lower, UserIdColumn)
       THEN before_where \o InjectedCondition \o after_where
     ELSE s

\* the else branch of _ensure_user_id_placeholder: " from "
inject_after_from(s) ==
  LET sql_lower == lower(s)
      from_idx == find(sql_lower, FromWord, 0)
      found_end == find(sql_lower, <<" ">>, from_idx + 6)
      table_end == IF found_end < 0 THEN Len(s) - 1 ELSE found_end
      rest_of_query == SliceFrom(s, table_end)
      first_part == SliceTo(s, table_end)
  IN IF from_idx > 0
       THEN IF endswith(strip(rest_of_query), <<";">>)
              THEN first_part \o InjectedWhere
                     \o strip(rstripChar(rest_of_query, ";")) \o <<";">>
            ELSE first_part \o InjectedWhere \o rest_of_query
     ELSE s

\* QueryGenerator._ensure_user_id_placeholder(sql)
ensure_user_id_placeholder(s) ==
  IF Contains(s, Placeholder) THEN s
  ELSE replace(IF Contains(lower(s), WhereWord)
                 THEN inject_after_where(s)
               ELSE inject_after_from(s),
               QuadPlaceholder, Placeholder)

\* what a call of generate invokes: the model, unless the question is blank
generate_calls(question) ==
  IF question = None \/ strip(question) = << >> THEN <<"generate">>
  ELSE <<"generate", "generate.llm">>

\* a variant of generate_extracted without the check of the question
generate_extracted_unguarded(question, outcome) ==
  IF outcome[1] = "raise" THEN None ELSE extract_sql(outcome[2])

\* QueryGenerator.generate(question, history) for one outcome of the model
\* call: <<"ok", content>> or <<"raise", message>>
generate_extracted(question, outcome) ==
  IF question = None \/ strip(question) = << >> THEN None
  ELSE IF outcome[1] = "raise" THEN None
  ELSE extract_sql(outcome[2])
generate(question, outcome) ==
  LET extracted == generate_extracted(question, outcome)
  IN IF extracted # None /\ extracted # << >>
       THEN ensure_user_id_placeholder(extracted)
     ELSE extracted

---------------------------------------------------------------------------
(* QueryExecutor (chatbot/query_executor.py): the pure steps               *)

MAX_RESULTS == 100
QUERY_TIMEOUT == 10

\* str(n) for a natural number n
DigitChars == <<"0","1","2","3","4","5","6","7","8","9">>
RECURSIVE str_of_int(_)
str_of_int(n) ==
  IF n < 10 THEN <<DigitChars[n + 1]>>
  ELSE str_of_int(n \div 10) \o <<DigitChars[(n % 10) + 1]>>

\* a variant of inject_user_id that substitutes the identity as it is
inject_user_id_unescaped(s, uid) == replace(s, Placeholder, uid)

\* QueryExecutor._inject_user_id(sql, user_id)
inject_user_id(s, uid) ==
  LET safe_user_id == replace(uid, <<"'">>, <<"'","'">>)
  IN replace(s, Placeholder, safe_user_id)

\* QueryExecutor._ensure_limit(sql)
ensure_limit(s) ==
  IF Contains(lower(s), <<"l","i","m","i","t">>) THEN s
  ELSE strip(rstripChar(s, ";")) \o <<" ","L","I","M","I","T"," ">> \o str_of_int(MAX_RESULTS) \o <<";">>

\* a variant of first_rows that omits the slice: rows
first_rows_unsliced(rows, n) == rows

\* rows[:MAX_RESULTS]
first_rows(rows, n) == IF Len(rows) <= n THEN rows ELSE SubSeq(rows, 1, n)

---------------------------------------------------------------------------
(* SecurityValidator.validate_input (chatbot/security.py)                  *)

\* the loop over DANGEROUS_KEYWORDS of validate_input: keyword in text_lower
dangerous_keyword_in_input(text_lower) ==
  \E k \in 1..Len(DANGEROUS_KEYWORDS) : Contains(text_lower, DANGEROUS_KEYWORDS[k])

\* SecurityValidator.validate_input(text) -> (is_valid, error_message)
validate_input(t) ==
  IF t = None \/ t = << >> \/ strip(t) = << >> THEN <<FALSE, "Empty input">>
  ELSE IF dangerous_keyword_in_input(lower(t)) THEN <<FALSE, "Invalid input detected">>
  ELSE IF dangerous_pattern_search(t) THEN <<FALSE, "Invalid input detected">>
  ELSE <<TRUE, "">>

---------------------------------------------------------------------------
(* IntentDetector (chatbot/intent_detector.py).  Every pattern is compiled *)
(* with re.IGNORECASE and used with search(); each operator below says     *)
(* whether its pattern has a match in the lower-cased text.                *)

\* some word of ws occurs in t
ContainsAny(t, ws) == \E w \in ws : Contains(t, w)

\* (?:a1|a2|...).+(?:b1|b2|...): a word of as, at least one character other
\* than a newline, then a word of bs
NoNewline(t, from, to) == \A k \in (from + 1)..to : t[k] # "\n"
ThenLater(t, as, bs) ==
  \E a \in as, b \in bs :
    \E i \in 0..(Len(t) - 1) :
      /\ MatchAt(t, a, i)
      /\ \E j \in (i + Len(a) + 1)..(Len(t) - 1) :
           MatchAt(t, b, j) /\ NoNewline(t, i + Len(a), j)

\* (?:w1|w2|...)\s+\d+
WordSpacesDigit(t, ws) ==
  \E w \in ws :
    \E i \in 0..(Len(t) - 1) :
      /\ MatchAt(t, w, i)
      /\ i + Len(w) < Len(t) /\ IsSpace(t[i + Len(w) + 1])
      /\ LET j == SkipSpaces(t, i + Len(w))
         IN j < Len(t) /\ IsDigit(t[j + 1])

\* \?$  ($ also matches before a newline that ends the text)
EndsWithQuestionMark(t) == endswith(t, <<"?">>) \/ endswith(t, <<"?", "\n">>)

CurrencyWords == { <<"€">>, <<"e","u","r">>, <<"e","u","r","o">>, <<"d","o","l","l","a","r">>, <<"$">>, <<"u","s","d">> }
CurrencySigns == {"€", "$"}

\* QUERY_PATTERNS, in order: QueryPattern(t)[k] is TRUE when pattern k matches
QueryPattern(t) ==
  << ContainsAny(t, { <<"h","o","w"," ","m","u","c","h">>, <<"c","u","á","n","t","o">>, <<"c","u","a","n","t","o">> }),
     ContainsAny(t, { <<"h","o","w"," ","m","u","c","h">>, <<"c","u","á","n","t","o">>, <<"c","u","a","n","t","o"," ","g","a","s","t","e">>, <<"c","u","á","n","t","o"," ","g","a","s","t","é">>, <<"c","u","á","n","t","o"," ","g","a","s","t","ó">> }),
     ContainsAny(t, { <<"s","h","o","w"," ","m","e">>, <<"m","u","é","s","t","r","a","m","e">>, <<"m","u","e","s","t","r","a">> }),
     ContainsAny(t, { <<"s","h","o","w"," ","m","e">>, <<"m","u","é","s","t","r","a","m","e">>, <<"m","u","e","s","t","r","a">>, <<"m","o","s","t","r","a","m","e"," ","d","e","t","a","l","l","e","s">>, <<"m","o","s","t","r","a","m","e"," ","l","o","s"," ","d","e","t","a","l","l","e","s">> }),
     ThenLater(t, { <<"w","h","a","t">>, <<"q","u","é">>, <<"q","u","e">> }, { <<"s","p","e","n","d">>, <<"s","p","e","n","t">>, <<"g","a","s","t","o">>, <<"g","a","s","t","é">> }),
     ContainsAny(t, { <<"c","o","m","p","a","r","e">>, <<"c","o","m","p","a","r","a","r">>, <<"c","o","m","p","a","r","i","s","o","n">>, <<"c","o","m","p","a","r","a","m","e">> }),
     ContainsAny(t, { <<"t","o","t","a","l">>, <<"s","u","m">>, <<"s","u","m","a">> }),
     ContainsAny(t, { <<"a","v","e","r","a","g","e">>, <<"p","r","o","m","e","d","i","o">>, <<"a","v","g">> }),
     ThenLater(t, { <<"w","h","i","c","h">>, <<"c","u","á","l">>, <<"c","u","a","l">> }, { <<"c","a","t","e","g","o","r","y">>, <<"c","a","t","e","g","o","r","í","a">> }),
     ThenLater(t, { <<"l","i","s","t">>, <<"l","i","s","t","a","r">>, <<"l","i","s","t","a">> }, { <<"e","x","p","e","n","s","e">>, <<"g","a","s","t","o">> }),
     ContainsAny(t, { <<"t","r","e","n","d">>, <<"t","e","n","d","e","n","c","i","a">> }),
     ContainsAny(t, { <<"p","a","t","t","e","r","n">>, <<"p","a","t","r","ó","n">> }),
     ContainsAny(t, { <<"t","o","p">>, <<"m","a","y","o","r">>, <<"h","i","g","h","e","s","t">>, <<"l","o","w","e","s","t">> }),
     ContainsAny(t, { <<"b","r","e","a","k","d","o","w","n">>, <<"d","e","s","g","l","o","s","e">> }),
     ContainsAny(t, { <<"a","n","a","l","y","s","i","s">>, <<"a","n","á","l","i","s","i","s">> }),
     ContainsAny(t, { <<"s","u","m","m","a","r","y">>, <<"r","e","s","u","m","e","n">> }),
     ThenLater(t, { <<"l","a","s","t">>, <<"ú","l","t","i","m","o">>, <<"ú","l","t","i","m","a">>, <<"ú","l","t","i","m","o","s">>, <<"ú","l","t","i","m","a","s">> }, { <<"m","o","n","t","h">>, <<"w","e","e","k">>, <<"d","a","y">>, <<"m","e","s">>, <<"s","e","m","a","n","a">>, <<"d","í","a">> }),
     ThenLater(t, { <<"t","h","i","s">>, <<"e","s","t","e">>, <<"e","s","t","a">> }, { <<"m","o","n","t","h">>, <<"w","e","e","k">>, <<"m","e","s">>, <<"s","e","m","a","n","a">> }),
     EndsWithQuestionMark(t) >>

\* EXPENSE_PATTERNS, in order
ExpensePattern(t) ==
  << WordSpacesDigit(t, { <<"s","p","e","n","t">>, <<"g","a","s","t","é">>, <<"g","a","s","t","e">> }),
     \* \d+(?:\.\d{1,2})?\s*(?:€|eur|euros?|dollars?|\$|usd): any match ends
     \* with a digit, white space and a currency word
     \E i \in 0..(Len(t) - 1) :
       IsDigit(t[i + 1]) /\ \E w \in CurrencyWords : MatchAt(t, w, SkipSpaces(t, i + 1)),
     \* (?:€|\$)\s*\d+(?:\.\d{1,2})?
     \E i \in 0..(Len(t) - 1) :
       /\ t[i + 1] \in CurrencySigns
       /\ LET j == SkipSpaces(t, i + 1) IN j < Len(t) /\ IsDigit(t[j + 1]),
     WordSpacesDigit(t, { <<"p","a","i","d">>, <<"p","a","g","u","é">>, <<"p","a","g","u","e">> }),
     \* (?:bought|compré|compre)\s+
     \E w \in { <<"b","o","u","g","h","t">>, <<"c","o","m","p","r","é">>, <<"c","o","m","p","r","e">> } :
       \E i \in 0..(Len(t) - 1) :
         MatchAt(t, w, i) /\ i + Len(w) < Len(t) /\ IsSpace(t[i + Len(w) + 1]),
     WordSpacesDigit(t, { <<"c","o","s","t">>, <<"c","o","s","t","ó">>, <<"c","o","s","t","o">> }) >>

\* the number of patterns that match
RECURSIVE CountTrue(_)
CountTrue(bs) ==
  IF bs = << >> THEN 0 ELSE (IF Head(bs) THEN 1 ELSE 0) + CountTrue(Tail(bs))

\* [\s!.,]*$ from index i on
GreetingTail(t, i) ==
  \A k \in (i + 1)..Len(t) : IsSpace(t[k]) \/ t[k] \in {"!", ".", ","}

GreetingWords == { <<"h","i">>, <<"h","e","l","l","o">>, <<"h","e","y">>, <<"h","o","l","a">> }
DayParts == { <<"d","í","a">>, <<"d","í","a","s">>, <<"t","a","r","d","e">>, <<"t","a","r","d","e","s">>, <<"n","o","c","h","e">>, <<"n","o","c","h","e","s">> }
EnglishDayParts == { <<"m","o","r","n","i","n","g">>, <<"a","f","t","e","r","n","o","o","n">>, <<"e","v","e","n","i","n","g">> }

\* GREETING_PATTERNS: some pattern matches
GreetingPattern(t) ==
  \/ \E w \in GreetingWords : startswith(t, w) /\ GreetingTail(t, Len(w))
  \/ \E b \in { <<"b","u","e","n","o">>, <<"b","u","e","n","o","s">> }, d \in DayParts :
       /\ startswith(t, b)
       /\ LET j == SkipSpaces(t, Len(b))
          IN MatchAt(t, d, j) /\ GreetingTail(t, j + Len(d))
  \/ \E d \in EnglishDayParts :
       /\ startswith(t, <<"g","o","o","d">>)
       /\ 4 < Len(t) /\ IsSpace(t[5])
       /\ LET j == SkipSpaces(t, 4)
          IN MatchAt(t, d, j) /\ GreetingTail(t, j + Len(d))

\* IntentDetector._has_amount_pattern(text):
\* \d+(?:[.,]\d{1,2})?\s*(?:€|eur|usd|\$|dollars?|euros?)?|\b(?:€|\$)\s*\d+
has_amount_pattern(t) ==
  \/ \E i \in 0..(Len(t) - 1) : IsDigit(t[i + 1])
  \/ \E i \in 0..(Len(t) - 1) :
       /\ t[i + 1] \in CurrencySigns
       /\ WordBoundary(t, i)
       /\ LET j == SkipSpaces(t, i + 1) IN j < Len(t) /\ IsDigit(t[j + 1])

\* a variant of detect without the greeting patterns
detect_scores_only(t0, hist) ==
  IF t0 = None \/ t0 = << >> \/ strip(t0) = << >> THEN "unknown"
  ELSE LET t == lower(strip(t0))
           expense_score == CountTrue(ExpensePattern(t))
           query_score == CountTrue(QueryPattern(t))
       IN IF expense_score > 0 /\ expense_score >= query_score THEN "expense"
          ELSE IF query_score > 0 THEN "query"
          ELSE IF endswith(strip(t0), <<"?">>) THEN "query"
          ELSE IF has_amount_pattern(t) THEN "expense"
          ELSE "query"

\* a variant of detect that tests the query score before the expense score
detect_query_first(t0, hist) ==
  IF t0 = None \/ t0 = << >> \/ strip(t0) = << >> THEN "unknown"
  ELSE LET t == lower(strip(t0))
           expense_score == CountTrue(ExpensePattern(t))
           query_score == CountTrue(QueryPattern(t))
       IN IF GreetingPattern(t) THEN "greeting"
          ELSE IF query_score > 0 THEN "query"
          ELSE IF expense_score > 0 /\ expense_score >= query_score THEN "expense"
          ELSE IF endswith(strip(t0), <<"?">>) THEN "query"
          ELSE IF has_amount_pattern(t) THEN "expense"
          ELSE IF Len(hist) > 0 THEN "query"
          ELSE "query"

\* a variant of detect whose last line returns unknown
detect_unknown_fallback(t0, hist) ==
  IF t0 = None \/ t0 = << >> \/ strip(t0) = << >> THEN "unknown"
  ELSE LET t == lower(strip(t0))
           expense_score == CountTrue(ExpensePattern(t))
           query_score == CountTrue(QueryPattern(t))
       IN IF GreetingPattern(t) THEN "greeting"
          ELSE IF expense_score > 0 /\ expense_score >= query_score THEN "expense"
          ELSE IF query_score > 0 THEN "query"
          ELSE IF endswith(strip(t0), <<"?">>) THEN "query"
          ELSE IF has_amount_pattern(t) THEN "expense"
          ELSE IF Len(hist) > 0 THEN "query"
          ELSE "unknown"

\* IntentDetector.detect(text, history)
detect(t0, hist) ==
  IF t0 = None \/ t0 = << >> \/ strip(t0) = << >> THEN "unknown"
  ELSE LET t == lower(strip(t0))
           expense_score == CountTrue(ExpensePattern(t))
           query_score == CountTrue(QueryPattern(t))
       IN IF GreetingPattern(t) THEN "greeting"
          ELSE IF expense_score > 0 /\ expense_score >= query_score THEN "expense"
          ELSE IF query_score > 0 THEN "query"
          ELSE IF endswith(strip(t0), <<"?">>) THEN "query"
          ELSE IF has_amount_pattern(t) THEN "expense"
          ELSE IF Len(hist) > 0 THEN "query"
          ELSE "query"

---------------------------------------------------------------------------
(* ResponseFormatter (chatbot/response_formatter.py).  A row is a sequence *)
(* of <<column, value>> pairs in the order of the result's columns; a      *)
(* value is <<"none">>, <<"int", n>>, <<"str", characters>> or a float     *)
(* <<"float", kind, n>>: the whole number n when kind is "finite", and     *)
(* infinity or NaN when kind is "inf" or "nan".                            *)

NoneValue == <<"none">>

\* isinstance(value, (int, float, Decimal)) and the number's whole value
IsNumber(value) == value[1] \in {"int", "float"}
IsFinite(value) == value[1] = "int" \/ value[2] = "finite"
WholeOf(value) == IF value[1] = "int" THEN value[2] ELSE value[3]

\* str(value) of a number
str_of_number(value) ==
  IF value[1] = "int" THEN str_of_int(value[2])
  ELSE IF value[2] = "inf" THEN <<"i","n","f">>
  ELSE IF value[2] = "nan" THEN <<"n","a","n">>
  ELSE str_of_int(value[3]) \o <<".","0">>

\* f"{float(value):.2f}" of a number
two_decimals_of(value) ==
  IF IsFinite(value) THEN str_of_int(WholeOf(value)) \o <<".","0","0">>
  ELSE str_of_number(value)

\* int(value) of a float that is infinite or NaN raises OverflowError or
\* ValueError
int_raises(value) == value[1] = "float" /\ value[2] # "finite"
int_exception(value) ==
  IF value[2] = "inf" THEN <<"Exception", "cannot convert float infinity to integer">>
  ELSE <<"Exception", "cannot convert float NaN to integer">>

\* a variant of _empty_response with the generic message only
empty_response_generic(question) ==
  Text("I couldn't find any data matching your question.")

\* ResponseFormatter._empty_response(question)
empty_response(question) ==
  LET question_lower == lower(question)
  IN IF ContainsAny(question_lower, { <<"h","o","w"," ","m","u","c","h">>, <<"c","u","á","n","t","o">>, <<"t","o","t","a","l">> })
       THEN Text("You haven't recorded any expenses matching that criteria yet.")
     ELSE IF ContainsAny(question_lower, { <<"s","h","o","w">>, <<"l","i","s","t">>, <<"m","u","e","s","t","r","a">> })
       THEN Text("No expenses found matching your request.")
     ELSE Text("I couldn't find any data matching your question.")

\* ResponseFormatter._format_single_value(result, question)
format_single_value(row) ==
  LET key == lower(row[1][1])
      value == row[1][2]
  IN IF value = NoneValue THEN Text("No data found for your query.")
     ELSE IF IsNumber(value)
       THEN IF ContainsAny(key, { <<"a","m","o","u","n","t">>, <<"t","o","t","a","l">>, <<"s","u","m">>, <<"s","p","e","n","t">> })
              THEN <<"€">> \o two_decimals_of(value)
            ELSE IF ContainsAny(key, { <<"c","o","u","n","t">>, <<"n","u","m","b","e","r">> })
              THEN str_of_int(WholeOf(value)) \o <<" ","t","r","a","n","s","a","c","t","i","o","n","s">>
            ELSE IF ContainsAny(key, { <<"a","v","e","r","a","g","e">>, <<"a","v","g">> })
              THEN <<"€">> \o two_decimals_of(value) \o <<" ","o","n"," ","a","v","e","r","a","g","e">>
            ELSE str_of_number(value)
     ELSE value[2]

\* _format_single_value raises: int(value) in the count branch
format_single_value_raises(row) ==
  LET key == lower(row[1][1])
      value == row[1][2]
  IN /\ value # NoneValue
     /\ int_raises(value)
     /\ ~ContainsAny(key, { <<"a","m","o","u","n","t">>, <<"t","o","t","a","l">>, <<"s","u","m">>, <<"s","p","e","n","t">> })
     /\ ContainsAny(key, { <<"c","o","u","n","t">>, <<"n","u","m","b","e","r">> })

\* ResponseFormatter._format_value(value) for a value that is not None
\* (a finite float of the model is a whole number: value == int(value))
format_value(value) ==
  IF IsNumber(value) THEN str_of_int(WholeOf(value)) ELSE value[2]

InternalColumns == { <<"i","d">>, <<"u","s","e","r","_","i","d">>, <<"a","c","c","o","u","n","t","_","i","d">>, <<"c","a","t","e","g","o","r","y","_","i","d">> }

\* sep.join(parts)
RECURSIVE join_text(_, _)
join_text(parts, sep) ==
  IF parts = << >> THEN << >>
  ELSE IF Len(parts) = 1 THEN parts[1]
  ELSE parts[1] \o sep \o join_text(Tail(parts), sep)

\* the single-row branch of _fallback_format: "**key**: value" lines
fallback_items(row) ==
  LET shown == SelectSeq(row, LAMBDA p : p[2] # NoneValue)
  IN [i \in 1..Len(shown) |->
        <<"*","*">> \o shown[i][1] \o <<"*","*",":"," ">> \o format_value(shown[i][2])]

\* the parts of one row in the many-row branch of _fallback_format
fallback_parts(row) ==
  LET shown == SelectSeq(row, LAMBDA p : p[2] # NoneValue /\ p[1] \notin InternalColumns)
  IN [i \in 1..Len(shown) |-> format_value(shown[i][2])]

\* the numbered lines of results[:10], from row i on
RECURSIVE fallback_lines(_, _)
fallback_lines(rows, i) ==
  IF i > Len(rows) \/ i > 10 THEN << >>
  ELSE LET parts == fallback_parts(rows[i])
       IN (IF parts # << >>
             THEN << str_of_int(i) \o <<".", " ">> \o join_text(parts, <<" ","|"," ">>) >>
           ELSE << >>)
          \o fallback_lines(rows, i + 1)

\* ResponseFormatter._fallback_format(results, question)
fallback_format(rows) ==
  IF Len(rows) = 1 THEN join_text(fallback_items(rows[1]), <<"\n">>)
  ELSE LET lines == fallback_lines(rows, 1)
           more == IF Len(rows) > 10
                     THEN << <<"\n",".",".","."," ","a","n","d"," ">> \o str_of_int(Len(rows) - 10) \o <<" ","m","o","r","e">> >>
                   ELSE << >>
       IN IF lines \o more # << >> THEN join_text(lines \o more, <<"\n">>)
          ELSE Text("No data to display.")

\* the values _fallback_format passes to _format_value, in order
RECURSIVE fallback_values(_, _)
fallback_values(rows, i) ==
  IF i > Len(rows) \/ i > 10 THEN << >>
  ELSE LET shown == SelectSeq(rows[i], LAMBDA p : p[2] # NoneValue /\ (Len(rows) = 1 \/ p[1] \notin InternalColumns))
       IN [k \in 1..Len(shown) |-> shown[k][2]] \o fallback_values(rows, i + 1)

\* _fallback_format raises: _format_value evaluates int(value) on a float
fallback_format_raising(rows) == SelectSeq(fallback_values(rows, 1), int_raises)
fallback_format_raises(rows) == fallback_format_raising(rows) # << >>

\* a variant of make_serializable that keeps every column
make_serializable_all_columns(rows) == rows

\* ResponseFormatter._make_serializable(results[:20]): the rows given to the
\* generation model
make_serializable(rows) ==
  [i \in 1..Len(rows) |-> SelectSeq(rows[i], LAMBDA p : p[1] \notin InternalColumns)]

\* ResponseFormatter.format reaches its try block (serialization and the
\* model call) for results that are neither empty nor a single value
format_calls_model(rows) == rows # << >> /\ ~(Len(rows) = 1 /\ Len(rows[1]) = 1)

\* ResponseFormatter.format raises: _format_single_value is called outside
\* the try block, _fallback_format inside the except clause
format_raises(rows, outcome) ==
  IF rows = << >> THEN FALSE
  ELSE IF Len(rows) = 1 /\ Len(rows[1]) = 1 THEN format_single_value_raises(rows[1])
  ELSE outcome[1] = "raise" /\ fallback_format_raises(rows)

\* the exception format raises
format_exception(rows) ==
  IF Len(rows) = 1 /\ Len(rows[1]) = 1 THEN int_exception(rows[1][1][2])
  ELSE int_exception(fallback_format_raising(rows)[1])

\* ResponseFormatter.format(results, question) for one outcome of the model
\* call: <<"ok", content>> or <<"raise", message>>
format(rows, question, outcome) ==
  IF rows = << >> THEN empty_response(question)
  ELSE IF Len(rows) = 1 /\ Len(rows[1]) = 1 THEN format_single_value(rows[1])
  ELSE IF outcome[1] = "raise" THEN fallback_format(rows)
  ELSE strip(outcome[2])
         \o (IF Len(rows) > 20
               THEN <<"\n","\n","(","S","h","o","w","i","n","g"," ","f","i","r","s","t"," ","2","0"," ","o","f"," ">> \o str_of_int(Len(rows)) \o <<" ","r","e","s","u","l","t","s",")">>
             ELSE << >>)

---------------------------------------------------------------------------
(* ChatbotService (chatbot/service.py): one request through                *)
(* process_message and _handle_query.                                      *)

GREETING_RESPONSE ==
  "Hello! I can help you understand your expenses. Try asking me:\n- How much did I spend this month?\n- What are my top spending categories?\n- Show me my food expenses\n- Compare this month to last month\n\nOr just tell me about an expense to log it!"
UNKNOWN_RESPONSE ==
  "I'm not sure what you're asking. You can:\n- Ask about your expenses (e.g., 'How much did I spend this month?')\n- Log an expense (e.g., 'Spent 25 on lunch')"

\* ChatResponse(answer, intent, should_log_expense, data, error, sql)
ChatResponse(answer, intent, should_log, data, error, s) ==
  [answer |-> answer, intent |-> intent, should_log_expense |-> should_log,
   data |-> data, error |-> error, sql |-> s]

\* a variant of handle_query_catches without the except Exception clause
handle_query_catches_timeout_only(exc) == exc[1] = "TimeoutError"

\* the except clauses of _handle_query (except TimeoutError, except
\* Exception): an exception <<class, message>> is caught by one of them
handle_query_catches(exc) == exc[1] \in {"TimeoutError", "Exception"}

\* a variant of handle_query_except with the except Exception clause only
handle_query_except_generic(exc) ==
  ChatResponse(Text("Sorry, I encountered an error processing your request. Please try again."),
               "query", FALSE, NoData, Text(exc[2]), None)

\* a variant of handle_query_except that returns the failed statement in
\* the response's sql field
handle_query_except_with_sql(exc) ==
  ChatResponse(Text("Sorry, I encountered an error processing your request. Please try again."),
               "query", FALSE, NoData, Text(exc[2]), sql)

\* the response the except clause returns for a caught exception
handle_query_except(exc) ==
  IF exc[1] = "TimeoutError"
    THEN ChatResponse(Text("The query took too long. Please try a simpler question."),
                      "query", FALSE, NoData, Text("Query timeout"), None)
  ELSE ChatResponse(Text("Sorry, I encountered an error processing your request. Please try again."),
                    "query", FALSE, NoData, Text(exc[2]), None)

\* the messages a request may carry
Messages ==
  { <<>>,
    <<" "," "," ">>,
    <<"H","i","!">>,
    <<"S","p","e","n","t"," ","2","5"," ","o","n"," ","l","u","n","c","h">>,
    <<"H","o","w"," ","m","u","c","h"," ","d","i","d"," ","I"," ","s","p","e","n","d"," ","t","h","i","s"," ","m","o","n","t","h","?">>,
    <<"S","h","o","w"," ","m","e"," ","m","y"," ","t","r","a","v","e","l"," ","e","x","p","e","n","s","e","s"," ","i","n"," ","1","9","9","9">>,
    <<" "," ","W","h","a","t"," ","a","r","e"," ","m","y"," ","t","o","p"," ","c","a","t","e","g","o","r","i","e","s","?"," ">>,
    <<"p","l","e","a","s","e"," ","d","r","o","p"," ","m","y"," ","t","a","b","l","e">>,
    <<"o","k"," ","t","h","a","n","k","s">>,
    <<" ","\n","\t">>,
    <<"L","i","s","t"," ","m","y"," ","t","o","t","a","l","s">>,
    <<"s","h","o","w"," ","m","e"," ","f","o","o","d"," ","-","-"," ","a","l","l">> }

\* caller identities (Firebase UIDs)
UserIds == { <<"u","i","d","-","a","l","i","c","e">>, <<"o","'","b","r","i","e","n">>, << >> }

\* conversation histories: none or empty (both << >>: every use of the
\* history only tests "if not history"), and one turn
Histories ==
  { << >>,
    << [user |-> <<"H","o","w"," ","m","u","c","h"," ","d","i","d"," ","I"," ","s","p","e","n","d","?">>, bot |-> <<"Y","o","u"," ","s","p","e","n","t"," ","1","2",".","0","0">>] >> }

\* what the generation model may return for a question
GenerationTexts ==
  { <<"S","E","L","E","C","T"," ","c",".","n","a","m","e"," ","a","s"," ","c","a","t","e","g","o","r","y",","," ","S","U","M","(","t",".","a","m","o","u","n","t",")"," ","a","s"," ","t","o","t","a","l"," ","F","R","O","M"," ","t","r","a","n","s","a","c","t","i","o","n","s"," ","t"," ","L","E","F","T"," ","J","O","I","N"," ","c","a","t","e","g","o","r","i","e","s"," ","c"," ","O","N"," ","t",".","c","a","t","e","g","o","r","y","_","i","d"," ","="," ","c",".","i","d"," ","W","H","E","R","E"," ","t",".","u","s","e","r","_","i","d"," ","="," ","'","{","{","u","s","e","r","_","i","d","}","}","'"," ","G","R","O","U","P"," ","B","Y"," ","c",".","n","a","m","e"," ","O","R","D","E","R"," ","B","Y"," ","t","o","t","a","l"," ","D","E","S","C"," ","L","I","M","I","T"," ","1","0",";">>,
    <<"S","E","L","E","C","T"," ","S","U","M","(","t",".","a","m","o","u","n","t",")"," ","a","s"," ","t","o","t","a","l","_","s","p","e","n","t"," ","F","R","O","M"," ","t","r","a","n","s","a","c","t","i","o","n","s"," ","t"," ","W","H","E","R","E"," ","t",".","u","s","e","r","_","i","d"," ","="," ","'","{","{","u","s","e","r","_","i","d","}","}","'"," ","A","N","D"," ","t",".","t","y","p","e"," ","="," ","'","e","x","p","e","n","s","e","'">>,
    <<Backtick,Backtick,Backtick,"s","q","l","\n","S","E","L","E","C","T"," ","t",".","a","m","o","u","n","t",","," ","t",".","d","e","s","c","r","i","p","t","i","o","n","\n","F","R","O","M"," ","t","r","a","n","s","a","c","t","i","o","n","s"," ","t","\n","W","H","E","R","E"," ","t",".","t","y","p","e"," ","="," ","'","e","x","p","e","n","s","e","'",";","\n",Backtick,Backtick,Backtick>>,
    <<"S","E","L","E","C","T"," ","t",".","a","m","o","u","n","t"," ","F","R","O","M"," ","t","r","a","n","s","a","c","t","i","o","n","s"," ","t"," ","W","H","E","R","E"," ","t",".","t","y","p","e"," ","="," ","'","e","x","p","e","n","s","e","'",";">>,
    <<"S","E","L","E","C","T"," ","S","U","M","(","t",".","a","m","o","u","n","t",")"," ","F","R","O","M"," ","t","r","a","n","s","a","c","t","i","o","n","s"," ","t"," ","G","R","O","U","P"," ","B","Y"," ","t",".","c","u","r","r","e","n","c","y",";">>,
    <<"I"," ","c","a","n","n","o","t"," ","a","n","s","w","e","r"," ","t","h","a","t"," ","q","u","e","s","t","i","o","n",".">>,
    <<>>,
    <<"S","E","L","E","C","T"," ","t",".","a","m","o","u","n","t"," ","F","R","O","M"," ","t","r","a","n","s","a","c","t","i","o","n","s"," ","t"," ","W","H","E","R","E"," ","t",".","u","s","e","r","_","i","d"," ","="," ","'","{","{","u","s","e","r","_","i","d","}","}","'",";"," ","D","R","O","P"," ","T","A","B","L","E"," ","t","r","a","n","s","a","c","t","i","o","n","s",";">>,
    <<"S","E","L","E","C","T"," ","t",".","a","m","o","u","n","t"," ","F","R","O","M"," ","t","r","a","n","s","a","c","t","i","o","n","s"," ","t"," ","W","H","E","R","E"," ","t",".","u","s","e","r","_","i","d"," ","="," ","'","{","{","u","s","e","r","_","i","d","}","}","'",";"," ","d","o"," ","$","$"," ","b","e","g","i","n"," ","e","n","d"," ","$","$">>,
    <<"S","E","L","E","C","T"," ","t",".","c","r","e","a","t","e","d","_","a","t",","," ","t",".","d","e","s","c","r","i","p","t","i","o","n"," ","F","R","O","M"," ","t","r","a","n","s","a","c","t","i","o","n","s"," ","t"," ","W","H","E","R","E"," ","t",".","u","s","e","r","_","i","d"," ","="," ","'","{","{","u","s","e","r","_","i","d","}","}","'",";"," ","S","E","L","E","C","T"," ","1",";">>,
    <<"D","E","L","E","T","E"," ","F","R","O","M"," ","t","r","a","n","s","a","c","t","i","o","n","s",";">>,
    <<"S","E","L","E","C","T"," ","1",";">> }

\* messages of the exceptions the collaborators may raise
ExceptionMessages ==
  { "relation \"transaction\" does not exist",
    "'NeonConfig' object has no attribute 'get_read_only_pool'",
    "DATABASE_URL must be set in environment variables",
    "503 model overloaded" }

GenerationOutcomes ==
  {<<"ok", c>> : c \in GenerationTexts} \cup {<<"raise", "503 model overloaded">>}

\* the largest number of rows the database returns in the model
MaxDbRows == 102

\* row i of a result with several columns
DetailRow(i) ==
  << <<<<"i","d">>, <<"int", i>>>>,
     <<<<"a","m","o","u","n","t">>, <<"int", 10 + i>>>>,
     <<<<"d","e","s","c","r","i","p","t","i","o","n">>, NoneValue>> >>
\* a result of one column
ScalarRow(i) == << <<<<"t","o","t","a","l","_","s","p","e","n","t">>, <<"int", i>>>> >>

\* a row with a double precision column
FloatRow(kind) ==
  << <<<<"r","a","t","i","o">>, <<"float", kind, 2>>>>,
     <<<<"a","m","o","u","n","t">>, <<"int", 12>>>> >>

RowCounts == {0, 1, 2, 20, 21, MAX_RESULTS, MAX_RESULTS + 1, MaxDbRows}

\* the row sequences the database may return
DbResults ==
  {[i \in 1..n |-> DetailRow(i)] : n \in RowCounts}
    \cup {[i \in 1..n |-> ScalarRow(n + 1 - i)] : n \in RowCounts}
    \cup {<< << <<<<"t","o","t","a","l","_","s","p","e","n","t">>, NoneValue>> >> >>}
    \cup {<< FloatRow(kind) >> : kind \in {"finite", "inf", "nan"}}
    \cup {<< << <<<<"t","x","_","c","o","u","n","t">>, <<"float", "inf", 0>>>> >> >>}

\* what the generation model may return to the formatter
FormatOutcomes ==
  { <<"ok", <<" ","Y","o","u"," ","s","p","e","n","t"," ","t","h","e"," ","m","o","s","t"," ","o","n"," ","F","o","o","d","."," ">>>>,
    <<"raise", "503 model overloaded">> }

Init ==
  /\ pc = "received"
  /\ text \in Messages \cup {None}
  /\ user_id \in UserIds
  /\ history \in Histories
  /\ llm_text = NoOutcome
  /\ extracted_sql = None
  /\ sql = None
  /\ valid = << >>
  /\ validated = {}
  /\ executed = << >>
  /\ sent = << >>
  /\ db_rows = << >>
  /\ results = << >>
  /\ raised = NoException
  /\ responses = << >>
  /\ escaped = FALSE
  /\ log = {}
  /\ calls = << >>
  /\ intents = << >>
  /\ fmt_text = NoOutcome
  /\ requests = << >>
  /\ executor = None
  /\ prompt_rows = << >>
  /\ neon_pool = None
  /\ pool_callers = << >>
  /\ db_tables = [accounts |-> << >>, transactions |-> << >>]
  /\ appliers = << >>

\* return r from process_message
Respond(r) ==
  /\ responses' = Append(responses, r)
  /\ pc' = "responded"

\* an exception exc is raised inside the try block of _handle_query
RaiseInHandleQuery(exc) ==
  /\ raised' = exc
  /\ log' = log \cup {exc[2]}
  /\ IF handle_query_catches(exc)
       THEN Respond(handle_query_except(exc)) /\ UNCHANGED escaped
     ELSE escaped' = TRUE /\ pc' = "escaped" /\ UNCHANGED responses

\* a variant of non_query_response that never asks the caller to log
non_query_response_never_logs(intent) ==
  IF intent = "greeting"
    THEN ChatResponse(Text(GREETING_RESPONSE), "greeting", FALSE, NoData, None, None)
  ELSE IF intent = "expense"
    THEN ChatResponse(<< >>, "expense", FALSE, NoData, None, None)
  ELSE ChatResponse(Text(UNKNOWN_RESPONSE), "unknown", FALSE, NoData, None, None)

\* the replies of process_message to the intents that are no query
non_query_response(intent) ==
  IF intent = "greeting"
    THEN ChatResponse(Text(GREETING_RESPONSE), "greeting", FALSE, NoData, None, None)
  ELSE IF intent = "expense"
    THEN ChatResponse(<< >>, "expense", TRUE, NoData, None, None)
  ELSE ChatResponse(Text(UNKNOWN_RESPONSE), "unknown", FALSE, NoData, None, None)

\* a variant of is_query_intent that lets every intent through
is_query_intent_always(intent) == TRUE

\* process_message reaches return await self._handle_query(...) when none
\* of the three returns before it is taken
is_query_intent(intent) == intent \notin {"greeting", "expense", "unknown"}

\* process_message up to the call of _handle_query: the empty check,
\* validate_input, detect and the replies that need no query
Receive ==
  /\ pc = "received"
  /\ UNCHANGED <<appliers, db_tables, pool_callers, neon_pool, prompt_rows, requests, executor, user_id, history, llm_text, extracted_sql, sql,
                 valid, validated, executed,
                 sent, db_rows, results, raised, escaped, fmt_text>>
  /\ IF text = None \/ text = << >> \/ strip(text) = << >>
       THEN /\ Respond(ChatResponse(Text("Please send a message."), "unknown",
                                    FALSE, NoData, None, None))
            /\ UNCHANGED <<text, log, calls, intents>>
     ELSE LET stripped == strip(text)
              checked == validate_input(stripped)
              intent == detect(stripped, history)
          IN /\ text' = stripped
             /\ IF ~Head(checked)
                  THEN /\ log' = log \cup {checked[2]}
                       /\ calls' = calls \o <<"validate_input">>
                       /\ UNCHANGED intents
                       /\ Respond(ChatResponse(
                            Text("I couldn't process that message. Please try rephrasing."),
                            "unknown", FALSE, NoData, Text(checked[2]), None))
                ELSE /\ log' = log
                     /\ calls' = calls \o <<"validate_input", "detect">>
                     /\ intents' = Append(intents, intent)
                     /\ IF is_query_intent(intent)
                          THEN pc' = "generate" /\ UNCHANGED responses
                        ELSE Respond(non_query_response(intent))

\* _handle_query: sql = await self.query_generator.generate(question, history)
GenerateSql ==
  /\ pc = "generate"
  /\ \E outcome \in GenerationOutcomes :
       LET generated == generate(text, outcome)
       IN /\ llm_text' = outcome
          /\ extracted_sql' = generate_extracted(text, outcome)
          /\ sql' = generated
          /\ log' = IF outcome[1] = "raise" THEN log \cup {outcome[2]} ELSE log
          /\ IF generated = None \/ generated = << >>
               THEN Respond(ChatResponse(
                      Text("I couldn't understand your question. Could you try rephrasing it?"),
                      "query", FALSE, NoData, Text("Failed to generate query"), None))
             ELSE pc' = "validate" /\ UNCHANGED responses
  /\ calls' = calls \o generate_calls(text)
  /\ UNCHANGED <<appliers, db_tables, pool_callers, neon_pool, prompt_rows, requests, executor, text, user_id, history, valid, validated,
                 executed, sent,
                 db_rows, results, raised, escaped, intents, fmt_text>>

\* a variant of ValidateSql that goes on to execute whatever validate_sql
\* returned
ValidateSql_unchecked ==
  /\ pc = "validate"
  /\ valid' = validate_sql(sql, user_id)
  /\ validated' = validated \cup {sql}
  /\ pc' = "execute"
  /\ calls' = Append(calls, "validate_sql")
  /\ UNCHANGED <<appliers, db_tables, pool_callers, neon_pool, prompt_rows, requests, executor, text, user_id, history, llm_text, extracted_sql,
                 sql, executed, sent,
                 db_rows, results, raised, escaped, intents, fmt_text, responses, log>>

\* _handle_query: is_valid, error = self.security.validate_sql(sql, user_id)
ValidateSql ==
  /\ pc = "validate"
  /\ LET checked == validate_sql(sql, user_id)
     IN /\ valid' = checked
        /\ IF Head(checked)
             THEN /\ validated' = validated \cup {sql}
                  /\ pc' = "execute"
                  /\ UNCHANGED <<responses, log>>
           ELSE /\ log' = log \cup {checked[2]}
                /\ Respond(ChatResponse(
                     Text("I couldn't process that query safely. Please try a different question."),
                     "query", FALSE, NoData, Text(checked[2]), None))
                /\ UNCHANGED validated
  /\ calls' = Append(calls, "validate_sql")
  /\ UNCHANGED <<appliers, db_tables, pool_callers, neon_pool, prompt_rows, requests, executor, text, user_id, history, llm_text, extracted_sql,
                 sql, executed, sent,
                 db_rows, results, raised, escaped, intents, fmt_text>>

\* _handle_query: executor = self._get_executor() fails (get_neon raises)
GetExecutorFails ==
  /\ pc = "execute"
  /\ RaiseInHandleQuery(<<"Exception", "DATABASE_URL must be set in environment variables">>)
  /\ UNCHANGED <<appliers, db_tables, pool_callers, neon_pool, prompt_rows, requests, executor, text, user_id, history, llm_text, extracted_sql,
                 sql, valid, validated,
                 executed, sent, db_rows, results, calls, intents, fmt_text>>

\* QueryExecutor.execute(sql, user_id) up to the first await: the guard,
\* _inject_user_id and _ensure_limit
ExecuteCall ==
  /\ pc = "execute"
  /\ executed' = Append(executed, <<sql, user_id>>)
  /\ IF sql = None \/ sql = << >> \/ user_id = None \/ user_id = << >>
       THEN /\ results' = << >>
            /\ log' = log \cup {"Missing SQL or user_id"}
            /\ pc' = "format"
            /\ UNCHANGED sent
     ELSE /\ sent' = Append(sent, ensure_limit(inject_user_id(sql, user_id)))
          /\ pc' = "fetch"
          /\ UNCHANGED <<results, log>>
  /\ calls' = Append(calls, "execute")
  /\ executor' = <<"QueryExecutor">>
  /\ UNCHANGED <<appliers, db_tables, pool_callers, neon_pool, prompt_rows, requests, text, user_id, history, llm_text, extracted_sql, sql, valid,
                 validated,
                 db_rows, raised, responses, escaped, intents, fmt_text>>

\* QueryExecutor.execute: rows = await conn.fetch(safe_sql) returns
FetchRows ==
  /\ pc = "fetch"
  /\ \E rows \in DbResults :
       /\ db_rows' = rows
       /\ results' = first_rows(rows, MAX_RESULTS)
  /\ pc' = "format"
  /\ UNCHANGED <<appliers, db_tables, pool_callers, neon_pool, prompt_rows, requests, executor, text, user_id, history, llm_text, extracted_sql,
                 sql, valid, validated,
                 executed, sent, raised, responses, escaped, log, calls, intents,
                 fmt_text>>

\* QueryExecutor.execute: asyncio.timeout(QUERY_TIMEOUT) expires; execute
\* raises TimeoutError
FetchTimeout ==
  /\ pc = "fetch"
  /\ RaiseInHandleQuery(<<"TimeoutError", "Query took too long to execute">>)
  /\ UNCHANGED <<appliers, db_tables, pool_callers, neon_pool, prompt_rows, requests, executor, text, user_id, history, llm_text, extracted_sql,
                 sql, valid, validated,
                 executed, sent, db_rows, results, calls, intents, fmt_text>>

\* QueryExecutor.execute: the pool or the query raises; execute re-raises
FetchError ==
  /\ pc = "fetch"
  /\ \E m \in { "relation \"transaction\" does not exist",
                "'NeonConfig' object has no attribute 'get_read_only_pool'" } :
       RaiseInHandleQuery(<<"Exception", m>>)
  /\ UNCHANGED <<appliers, db_tables, pool_callers, neon_pool, prompt_rows, requests, executor, text, user_id, history, llm_text, extracted_sql,
                 sql, valid, validated,
                 executed, sent, db_rows, results, calls, intents, fmt_text>>

\* _handle_query: answer = await self.formatter.format(results, question),
\* and the successful response
FormatAnswer ==
  /\ pc = "format"
  /\ \E outcome \in FormatOutcomes :
       /\ fmt_text' = IF format_calls_model(results) THEN outcome ELSE NoOutcome
       /\ IF format_raises(results, outcome)
            THEN /\ raised' = format_exception(results)
                 /\ log' = log \cup {format_exception(results)[2]}
                               \cup (IF format_calls_model(results) THEN {outcome[2]} ELSE {})
                 /\ Respond(handle_query_except(format_exception(results)))
          ELSE /\ Respond(ChatResponse(format(results, text, outcome), "query", FALSE,
                                       Data(results), None, sql))
               /\ log' = IF outcome[1] = "raise" /\ format_calls_model(results)
                           THEN log \cup {outcome[2]} ELSE log
               /\ UNCHANGED raised
  /\ calls' = calls \o (IF format_calls_model(results)
                          THEN <<"format", "format.llm">> ELSE <<"format">>)
  /\ prompt_rows' = IF format_calls_model(results)
                      THEN make_serializable(first_rows(results, 20))
                    ELSE prompt_rows
  /\ UNCHANGED <<appliers, db_tables, pool_callers, neon_pool, requests, executor, text, user_id, history, llm_text, extracted_sql,
                 sql, valid, validated,
                 executed, sent, db_rows, results, escaped, intents>>

Next ==
  \/ Receive
  \/ GenerateSql
  \/ ValidateSql
  \/ GetExecutorFails
  \/ ExecuteCall
  \/ FetchRows
  \/ FetchTimeout
  \/ FetchError
  \/ FormatAnswer

Spec == Init /\ [][Next]_vars

---------------------------------------------------------------------------
(* Properties of the orchestrator (specification Spec)                     *)

\* keyword occurs in s as a whole word, in any letter case: an occurrence
\* that neither continues a word on its left nor on its right
OccursAsWholeWord(keyword, s) ==
  LET t == lower(s)
      n == Len(keyword)
  IN \E i \in 0..(Len(t) - n) :
       /\ MatchAt(t, keyword, i)
       /\ IsWordChar(keyword[1]) => (i = 0 \/ ~IsWordChar(t[i]))
       /\ IsWordChar(keyword[n]) => (i + n = Len(t) \/ ~IsWordChar(t[i + n + 1]))

HasDenylistWord(s) ==
  \E k \in 1..Len(DANGEROUS_KEYWORDS) : OccursAsWholeWord(DANGEROUS_KEYWORDS[k], s)

\* C1, first half: execute is called only with the string validate_sql
\* accepted earlier in the same request.
C1_ExecutedWasValidated ==
  \A i \in 1..Len(executed) :
    /\ executed[i][1] \in validated
    /\ executed[i][1] = sql
    /\ valid # << >> /\ valid[1]

\* C1: every statement handed to QueryExecutor.execute was validated in the
\* same request, is the validated string, contains {{user_id}}, begins
\* with SELECT and contains no denylist keyword as a whole word.
C1_ExecutedIsSafe ==
  /\ C1_ExecutedWasValidated
  /\ \A i \in 1..Len(executed) :
       LET s == executed[i][1]
       IN /\ Contains(s, Placeholder)
          /\ startswith(lower(strip(s)), Select)
          /\ ~HasDenylistWord(s)

\* the answers and error codes of the failures of the query pipeline
RephraseAnswer == Text("I couldn't understand your question. Could you try rephrasing it?")
UnsafeAnswer == Text("I couldn't process that query safely. Please try a different question.")
TimeoutAnswer == Text("The query took too long. Please try a simpler question.")
GenericAnswer == Text("Sorry, I encountered an error processing your request. Please try again.")
GenerationFailedCode == Text("Failed to generate query")
TimeoutCode == Text("Query timeout")

\* the failure, if any, that ended the request
GenerationFailed == llm_text # NoOutcome /\ (sql = None \/ sql = << >>)
ValidationRejected == valid # << >> /\ ~valid[1]
TimedOut == raised[1] = "TimeoutError"
ExecutionFailed == raised[1] = "Exception"

\* C8: process_message returns exactly one ChatResponse whatever its
\* collaborators do: no exception escapes, no request is answered twice,
\* a request that has not been answered is at a step of the handler (each
\* of which can always be taken), and a finished request has exactly one
\* response.
C8_ExactlyOneResponse ==
  /\ ~escaped
  /\ pc # "escaped"
  /\ Len(responses) <= 1
  /\ (pc = "responded") <=> (Len(responses) = 1)
  /\ pc \in {"received", "generate", "validate", "execute", "fetch", "format", "responded"}

\* a collaborator raised and the request was answered all the same
C8_Witness ==
  /\ pc = "responded"
  /\ Len(responses) = 1
  /\ ExecutionFailed
  /\ llm_text # NoOutcome

\* C9: each failure of the query pipeline has its own answer and error
\* code, with intent query and no data; a timeout is answered as a timeout
\* and nothing else is.
C9_DistinctFailures ==
  (pc = "responded" /\ llm_text # NoOutcome) =>
    LET r == responses[1]
        failed == GenerationFailed \/ ValidationRejected \/ TimedOut \/ ExecutionFailed
    IN /\ Cardinality({RephraseAnswer, UnsafeAnswer, TimeoutAnswer, GenericAnswer}) = 4
       /\ GenerationFailed => r.answer = RephraseAnswer /\ r.error = GenerationFailedCode
       /\ ValidationRejected =>
            /\ r.answer = UnsafeAnswer
            /\ r.error = Text(valid[2])
            /\ r.error \notin {GenerationFailedCode, TimeoutCode, None}
       /\ TimedOut => r.answer = TimeoutAnswer /\ r.error = TimeoutCode
       /\ ExecutionFailed =>
            /\ r.answer = GenericAnswer
            /\ r.error \notin {GenerationFailedCode, TimeoutCode, None, Text(valid[2])}
       /\ failed => r.intent = "query" /\ r.data = NoData /\ ~r.should_log_expense
       /\ (r.answer = TimeoutAnswer \/ r.error = TimeoutCode) => TimedOut
       /\ (r.answer = GenericAnswer) => ExecutionFailed
       /\ ~failed => r.error = None

\* the query timed out and the request was answered
C9_Witness ==
  /\ pc = "responded"
  /\ TimedOut
  /\ responses[1].answer = TimeoutAnswer

\* C10: no field of a response carries the message of an exception raised
\* in the query pipeline.
C10_NoExceptionMessageInResponse ==
  \A i \in 1..Len(responses) :
    /\ raised # NoException => responses[i].data = NoData
    /\ \A m \in ExceptionMessages :
         /\ responses[i].error # Text(m)
         /\ responses[i].answer # Text(m)

\* C5: execute returns at most MAX_RESULTS rows, and they are the leading
\* rows of what the database returned, in the same order.
C5_RowCap ==
  /\ Len(results) <= 100
  /\ Len(results) <= Len(db_rows)
  /\ \A i \in 1..Len(results) : results[i] = db_rows[i]

\* the database returned more than 100 rows for a statement
C5_Witness ==
  /\ pc = "format"
  /\ Len(db_rows) > 100
  /\ Len(results) = 100
  /\ Len(sent) = 1

---------------------------------------------------------------------------
(* validate_sql on its own (specification SpecValidator)                   *)

\* leading white space of a statement
MaxPad == 2
Spaces(n) == [i \in 1..n |-> " "]

\* how a statement may begin
SqlHeads ==
  { <<"S","E","L","E","C","T"," ">>,
    <<"s","e","l","e","c","t"," ">>,
    <<"S","e","L","e","C","t","\n">>,
    <<"W","I","T","H"," ","a"," ","A","S"," ","(","S","E","L","E","C","T"," ","1",")"," ","S","E","L","E","C","T"," ">>,
    <<"D","E","L","E","T","E"," ">> }

\* select lists and filters: with the placeholder, without it, and with a
\* denylist word in the select list
SqlBodies ==
  { <<"t",".","a","m","o","u","n","t"," ","F","R","O","M"," ","t","r","a","n","s","a","c","t","i","o","n","s"," ","t"," ","W","H","E","R","E"," ","t",".","u","s","e","r","_","i","d"," ","="," ","'","{","{","u","s","e","r","_","i","d","}","}","'">>,
    <<"t",".","a","m","o","u","n","t"," ","F","R","O","M"," ","t","r","a","n","s","a","c","t","i","o","n","s"," ","t"," ","W","H","E","R","E"," ","t",".","u","s","e","r","_","i","d"," ","="," ","'","a","b","c","'">>,
    <<"t",".","a","m","o","u","n","t",","," ","E","X","E","C","U","T","E"," ","F","R","O","M"," ","t","r","a","n","s","a","c","t","i","o","n","s"," ","t"," ","W","H","E","R","E"," ","t",".","u","s","e","r","_","i","d"," ","="," ","'","{","{","u","s","e","r","_","i","d","}","}","'">> }

\* how a statement may end: schema columns, denylist keywords in several
\* letter cases, alone and inside longer words, and injection shapes
SqlTails ==
  { <<>>,
    <<";">>,
    <<" ","O","R","D","E","R"," ","B","Y"," ","t",".","c","r","e","a","t","e","d","_","a","t"," ","D","E","S","C",","," ","t",".","u","p","d","a","t","e","d","_","a","t",","," ","t",".","d","e","s","c","r","i","p","t","i","o","n"," ","L","I","M","I","T"," ","5",";">>,
    <<";"," ","D","R","O","P"," ","T","A","B","L","E"," ","t","r","a","n","s","a","c","t","i","o","n","s",";">>,
    <<" ",";"," ","d","o"," ","$","$"," ","b","e","g","i","n"," ","e","n","d"," ","$","$">>,
    <<" ","s","e","t"," "," ","x">>,
    <<" ","A","N","D"," ","t",".","a","m","o","u","n","t"," ",">"," ","5"," ",";","t","r","u","n","c","a","t","e","d">>,
    <<" ","U","N","I","O","N"," ","A","L","L"," ","S","E","L","E","C","T"," ","1">>,
    <<" ","u","n","i","o","n","\t","s","e","l","e","c","t"," ","1">>,
    <<" ","-","-"," ","x">>,
    <<" ","/","*"," ","x">>,
    <<" ","x"," ","*","/">>,
    <<" ","O","R"," ","'","1","'","=","'","1","'">>,
    <<" ","O","R"," ","5"," ","="," ","t",".","a","m","o","u","n","t">>,
    <<" ","O","R"," ","t",".","a","m","o","u","n","t"," ","="," ","5">>,
    <<";"," ","S","E","L","E","C","T"," ","2">>,
    <<" ","A","N","D"," ","D","e","L","e","T","e">>,
    <<" ","A","N","D"," ","t",".","d","e","l","e","t","e","d"," ","="," ","1">>,
    <<" ","A","N","D"," ","p","g","_","s","l","e","e","p","(","1",")"," ","I","S"," ","N","U","L","L">>,
    <<" ","A","N","D"," ","p","g","_"," ","="," ","1">>,
    <<" ","I","N","T","O"," ","O","U","T","F","I","L","E"," ","'","f","'">>,
    <<" ","c","a","l","l"," ","(","1",")">>,
    <<" ","l","o","c","k"," ">>,
    <<" ","c","o","p","y"," ","x">>,
    <<" ","A","N","D"," ","g","r","a","n","t","_","i","d"," ","="," ","1">>,
    <<" ","A","N","D"," ","(","d","r","o","p",")">>,
    <<" ",";"," ","-","-"," ","x">>,
    <<" ","C","o","m","m","e","n","t"," "," ","O","n">>,
    <<";"," ","T","A","B","L","E"," ","t","r","a","n","s","a","c","t","i","o","n","s">>,
    <<";"," ","W","I","T","H"," ","a"," ","A","S"," ","(","S","E","L","E","C","T"," ","1",")"," ","S","E","L","E","C","T"," ","*"," ","F","R","O","M"," ","a",";">>,
    <<" ","A","N","D"," ","t",".","d","e","s","c","r","i","p","t","i","o","n"," ","="," ","'","a",";"," ","b","'">> }

\* a statement of n characters: SELECT, an identifier that fills it up,
\* and a filter on the placeholder
LongSqlFilter == <<" ","F","R","O","M"," ","t","r","a","n","s","a","c","t","i","o","n","s"," ","t"," ","W","H","E","R","E"," ","t",".","u","s","e","r","_","i","d"," ","="," ","'","{","{","u","s","e","r","_","i","d","}","}","'">>
LongSql(n) ==
  <<"S","E","L","E","C","T"," ">> \o [i \in 1..(n - 7 - Len(LongSqlFilter)) |-> "x"] \o LongSqlFilter

\* the statements validate_sql is applied to
SqlInputs ==
  { Spaces(n) \o head \o body \o tail :
      n \in 0..MaxPad, head \in SqlHeads, body \in SqlBodies, tail \in SqlTails }
    \cup { LongSql(n) : n \in (MAX_QUERY_LENGTH - 1)..(MAX_QUERY_LENGTH + 1) }
    \cup { << >>, Spaces(MaxPad) }

InitValidator ==
  /\ pc = "validate_sql"
  /\ sql \in SqlInputs
  /\ user_id = <<"u","i","d","-","a","l","i","c","e">>
  /\ text = None
  /\ history = << >>
  /\ llm_text = NoOutcome
  /\ extracted_sql = None
  /\ valid = << >>
  /\ validated = {}
  /\ executed = << >>
  /\ sent = << >>
  /\ db_rows = << >>
  /\ results = << >>
  /\ raised = NoException
  /\ responses = << >>
  /\ escaped = FALSE
  /\ log = {}
  /\ calls = << >>
  /\ intents = << >>
  /\ fmt_text = NoOutcome
  /\ requests = << >>
  /\ executor = None
  /\ prompt_rows = << >>
  /\ neon_pool = None
  /\ pool_callers = << >>
  /\ db_tables = [accounts |-> << >>, transactions |-> << >>]
  /\ appliers = << >>

\* is_valid, error = validate_sql(sql, user_id)
CallValidateSql ==
  /\ pc = "validate_sql"
  /\ valid' = validate_sql(sql, user_id)
  /\ pc' = "validate_sql returned"
  /\ calls' = Append(calls, "validate_sql")
  /\ UNCHANGED <<appliers, db_tables, pool_callers, neon_pool, prompt_rows, requests, executor, text, user_id, history, llm_text, extracted_sql,
                 sql, validated, executed,
                 sent, db_rows, results, raised, responses, escaped, log, intents,
                 fmt_text>>

NextValidator == CallValidateSql

SpecValidator == InitValidator /\ [][NextValidator]_vars

\* the characters of t from index i up to, not including, index j (0-based)
\* are all white space
AllSpaces(t, i, j) == \A k \in (i + 1)..j : IsSpace(t[k])
AllDigits(t, i, j) == \A k \in (i + 1)..j : IsDigit(t[k])
\* w stands in t after index i and any white space / at least one white space
AfterSpaces(t, i, w) == \E j \in i..Len(t) : AllSpaces(t, i, j) /\ MatchAt(t, w, j)
AfterSomeSpace(t, i, w) == \E j \in (i + 1)..Len(t) : AllSpaces(t, i, j) /\ MatchAt(t, w, j)

\* the injection shapes, in any letter case: comment delimiters
HasCommentDelimiter(s) ==
  \E d \in { <<"-","-">>, <<"/","*">>, <<"*","/">> } : Contains(s, d)
\* UNION SELECT and UNION ALL SELECT
HasUnionSelect(s) ==
  LET t == lower(s)
  IN \E i \in 0..Len(t) :
       /\ MatchAt(t, <<"u","n","i","o","n">>, i)
       /\ \/ AfterSomeSpace(t, i + 5, Select)
          \/ \E j \in (i + 6)..Len(t) :
               /\ AllSpaces(t, i + 5, j)
               /\ MatchAt(t, <<"a","l","l">>, j)
               /\ AfterSomeSpace(t, j + 3, Select)
\* a quote, OR, and a comparison whose left side is an optionally quoted
\* number or nothing
HasQuoteOr(s) ==
  LET t == lower(s)
  IN \E i \in 0..Len(t) :
       /\ MatchAt(t, <<"'">>, i)
       /\ \E o \in (i + 1)..Len(t) :
            /\ AllSpaces(t, i + 1, o)
            /\ MatchAt(t, <<"o","r">>, o)
            /\ \E a \in (o + 3)..Len(t), e \in (o + 3)..Len(t) :
                 /\ a <= e
                 /\ AllSpaces(t, o + 2, a)
                 /\ MatchAt(t, <<"=">>, e)
                 /\ \E b \in {a, a + 1}, c \in a..e, d \in a..e :
                      /\ b <= c /\ c <= d /\ d <= c + 1
                      /\ (b = a + 1) => MatchAt(t, <<"'">>, a)
                      /\ AllDigits(t, b, c)
                      /\ (d = c + 1) => MatchAt(t, <<"'">>, c)
                      /\ AllSpaces(t, d, e)
\* a semicolon followed by a mutating verb or by SELECT
HasSemicolonThenStatement(s) ==
  LET t == lower(s)
  IN \E i \in 0..Len(t) :
       /\ MatchAt(t, <<";">>, i)
       /\ \E w \in { <<"d","r","o","p">>, <<"d","e","l","e","t","e">>,
                     <<"u","p","d","a","t","e">>, <<"i","n","s","e","r","t">>,
                     <<"a","l","t","e","r">>, <<"t","r","u","n","c","a","t","e">>,
                     <<"s","e","l","e","c","t">> } : AfterSpaces(t, i + 1, w)
InjectionShaped(s) ==
  \/ HasCommentDelimiter(s)
  \/ HasUnionSelect(s)
  \/ HasQuoteOr(s)
  \/ HasSemicolonThenStatement(s)

\* s with its leading and trailing white space removed
Trimmed(s) ==
  IF \A k \in 1..Len(s) : IsSpace(s[k]) THEN << >>
  ELSE LET first == CHOOSE i \in 1..Len(s) : ~IsSpace(s[i]) /\ AllSpaces(s, 0, i - 1)
           last == CHOOSE j \in 1..Len(s) : ~IsSpace(s[j]) /\ AllSpaces(s, j, Len(s))
       IN SubSeq(s, first, last)

\* the statements C4 is about
SafeStatement(s) ==
  LET t == Trimmed(s)
  IN /\ Len(t) >= 6
     /\ lower(SubSeq(t, 1, 6)) = <<"s","e","l","e","c","t">>
     /\ Len(t) < 2000
     /\ Contains(t, <<"{","{","u","s","e","r","_","i","d","}","}">>)
     /\ ~HasDenylistWord(t)
     /\ ~InjectionShaped(t)

ValidateSqlReturned == pc = "validate_sql returned"

\* C3: a statement in which a denylist keyword occurs as a whole word, in
\* any letter case and at any position, is rejected by validate_sql.
C3_DenylistWordRejected ==
  (ValidateSqlReturned /\ HasDenylistWord(sql)) => ~valid[1]

\* C4: validate_sql returns (true, "") for every statement that, trimmed,
\* begins with SELECT, has fewer than 2000 characters, contains
\* {{user_id}}, has no denylist keyword as a whole word and no injection
\* shape; the schema's columns created_at, updated_at and description do
\* not make it reject.
C4_SafeStatementAccepted ==
  (ValidateSqlReturned /\ SafeStatement(sql)) => valid = <<TRUE, "">>

\* a safe statement naming created_at, updated_at and description was
\* accepted
C4_Witness ==
  /\ ValidateSqlReturned
  /\ SafeStatement(sql)
  /\ Contains(sql, <<"c","r","e","a","t","e","d","_","a","t">>)
  /\ Contains(sql, <<"u","p","d","a","t","e","d","_","a","t">>)
  /\ Contains(sql, <<"d","e","s","c","r","i","p","t","i","o","n">>)
  /\ valid = <<TRUE, "">>

---------------------------------------------------------------------------
(* QueryGenerator.generate on its own (specification SpecGenerator)        *)

\* what the generation model may write before the statement
LlmPreambles ==
  { <<>>,
    <<"H","e","r","e"," ","i","s"," ","t","h","e"," ","q","u","e","r","y",":","\n">>,
    <<Backtick,Backtick,Backtick,"s","q","l","\n">> }
LlmSelectLists ==
  { <<"S","E","L","E","C","T"," ","S","U","M","(","t",".","a","m","o","u","n","t",")"," ","A","S"," ","t","o","t","a","l">>,
    <<"s","e","l","e","c","t"," ","t",".","a","m","o","u","n","t",","," ","t",".","d","e","s","c","r","i","p","t","i","o","n">> }
\* FROM clauses: a table, a table with an alias, on a line of its own,
\* with a join
LlmFromClauses ==
  { <<" ","F","R","O","M"," ","t","r","a","n","s","a","c","t","i","o","n","s">>,
    <<" ","F","R","O","M"," ","t","r","a","n","s","a","c","t","i","o","n","s"," ","t">>,
    <<"\n","F","R","O","M"," ","t","r","a","n","s","a","c","t","i","o","n","s"," ","t">>,
    <<" ","F","R","O","M"," ","t","r","a","n","s","a","c","t","i","o","n","s"," ","t"," ","J","O","I","N"," ","c","a","t","e","g","o","r","i","e","s"," ","c"," ","O","N"," ","t",".","c","a","t","e","g","o","r","y","_","i","d"," ","="," ","c",".","i","d">> }
\* WHERE clauses: none, without the placeholder, on a line of its own,
\* with the placeholder, with a literal user id, in lower case
LlmWhereClauses ==
  { <<>>,
    <<" ","W","H","E","R","E"," ","t",".","t","y","p","e"," ","="," ","'","e","x","p","e","n","s","e","'">>,
    <<"\n","W","H","E","R","E"," ","t",".","t","y","p","e"," ","="," ","'","e","x","p","e","n","s","e","'">>,
    <<" ","W","H","E","R","E"," ","t",".","u","s","e","r","_","i","d"," ","="," ","'","{","{","u","s","e","r","_","i","d","}","}","'">>,
    <<" ","W","H","E","R","E"," ","t",".","u","s","e","r","_","i","d"," ","="," ","'","a","b","c","'">>,
    <<" ","w","h","e","r","e"," ","t",".","a","m","o","u","n","t"," ",">"," ","5">> }
LlmTrailingClauses ==
  { <<>>,
    <<" ","G","R","O","U","P"," ","B","Y"," ","t",".","c","u","r","r","e","n","c","y">>,
    <<" ","O","R","D","E","R"," ","B","Y"," ","t",".","a","m","o","u","n","t"," ","D","E","S","C"," ","L","I","M","I","T"," ","5">> }
LlmTerminators ==
  { <<>>,
    <<";">> }
LlmPostambles ==
  { <<>>,
    <<"\n",Backtick,Backtick,Backtick,"\n","T","h","i","s"," ","s","u","m","s"," ","y","o","u","r"," ","e","x","p","e","n","s","e","s",".">> }
\* outputs that are no statement of the shape above
LlmOtherTexts ==
  { <<>>,
    <<" ","\n"," ">>,
    <<"Y","o","u"," ","c","o","u","l","d"," ","s","e","l","e","c","t"," ","l","e","s","s"," ","d","a","t","a",".">>,
    <<"I"," ","c","a","n","n","o","t"," ","a","n","s","w","e","r"," ","t","h","a","t"," ","q","u","e","s","t","i","o","n",".">>,
    <<"S","E","L","E","C","T"," ","1",";">>,
    <<Backtick,Backtick,Backtick,"\n","S","E","L","E","C","T"," ","1","\n",Backtick,Backtick,Backtick>>,
    <<"S","E","L","E","C","T"," ","*"," ","F","R","O","M"," "," ","t","r","a","n","s","a","c","t","i","o","n","s",";",";">> }

\* the texts the generation model may return
LlmTexts ==
  { Spaces(n) \o a \o b \o c \o d \o e \o f \o g :
      n \in 0..MaxPad, a \in LlmPreambles, b \in LlmSelectLists, c \in LlmFromClauses,
      d \in LlmWhereClauses, e \in LlmTrailingClauses, f \in LlmTerminators,
      g \in LlmPostambles }
    \cup LlmOtherTexts

Questions ==
  { <<"H","o","w"," ","m","u","c","h"," ","d","i","d"," ","I"," ","s","p","e","n","d"," ","t","h","i","s"," ","m","o","n","t","h","?">>,
    <<" "," "," ">> }

InitGenerator ==
  /\ pc = "generate"
  /\ text \in Questions
  /\ llm_text \in {<<"ok", c>> : c \in LlmTexts} \cup {<<"raise", "503 model overloaded">>}
  /\ extracted_sql = None
  /\ sql = None
  /\ user_id = <<"u","i","d","-","a","l","i","c","e">>
  /\ history = << >>
  /\ valid = << >>
  /\ validated = {}
  /\ executed = << >>
  /\ sent = << >>
  /\ db_rows = << >>
  /\ results = << >>
  /\ raised = NoException
  /\ responses = << >>
  /\ escaped = FALSE
  /\ log = {}
  /\ calls = << >>
  /\ intents = << >>
  /\ fmt_text = NoOutcome
  /\ requests = << >>
  /\ executor = None
  /\ prompt_rows = << >>
  /\ neon_pool = None
  /\ pool_callers = << >>
  /\ db_tables = [accounts |-> << >>, transactions |-> << >>]
  /\ appliers = << >>

\* sql = await generate(question, history), the model call answering
\* llm_text
CallGenerate ==
  /\ pc = "generate"
  /\ extracted_sql' = generate_extracted(text, llm_text)
  /\ sql' = generate(text, llm_text)
  /\ log' = IF llm_text[1] = "raise" /\ strip(text) # << >>
              THEN log \cup {llm_text[2]} ELSE log
  /\ pc' = "generate returned"
  /\ calls' = calls \o generate_calls(text)
  /\ UNCHANGED <<appliers, db_tables, pool_callers, neon_pool, prompt_rows, requests, executor, text, user_id, history, llm_text, valid,
                 validated, executed,
                 sent, db_rows, results, raised, responses, escaped, intents,
                 fmt_text>>

\* _handle_query after generate returned: the rephrase reply for a null
\* (or empty) statement, else on to validate_sql
HandleGenerated ==
  /\ pc = "generate returned"
  /\ IF sql = None \/ sql = << >>
       THEN Respond(ChatResponse(
              Text("I couldn't understand your question. Could you try rephrasing it?"),
              "query", FALSE, NoData, Text("Failed to generate query"), None))
     ELSE pc' = "validate" /\ UNCHANGED responses
  /\ UNCHANGED <<appliers, db_tables, pool_callers, neon_pool, prompt_rows, requests, executor, text, user_id, history, llm_text, extracted_sql,
                 sql, valid, validated,
                 executed, sent, db_rows, results, raised, escaped, log, calls, intents,
                 fmt_text>>

NextGenerator == CallGenerate \/ HandleGenerated

SpecGenerator == InitGenerator /\ [][NextGenerator]_vars

GenerateReturned == pc = "generate returned"

\* the word w (in lower case) stands in t at index i (0-based) and is not
\* part of a longer word
WordOccursAt(t, w, i) ==
  /\ MatchAt(t, w, i)
  /\ i = 0 \/ ~IsWordChar(t[i])
  /\ i + Len(w) = Len(t) \/ ~IsWordChar(t[i + Len(w) + 1])
WordIndexes(s, w) == {i \in 0..Len(s) : WordOccursAt(lower(s), w, i)}
HasWord(s, w) == WordIndexes(s, w) # {}
FirstWordIndex(s, w) == CHOOSE i \in WordIndexes(s, w) : \A j \in WordIndexes(s, w) : i <= j

\* s with x inserted after its first i characters
InsertAt(s, i, x) == SubSeq(s, 1, i) \o x \o SubSeq(s, i + 1, Len(s))

\* s without its white space
Squash(s) == SelectSeq(s, LAMBDA c : ~IsSpace(c))

\* s without the semicolons and white space at its end
RECURSIVE Unterminated(_)
Unterminated(s) ==
  IF s # << >> /\ (IsSpace(s[Len(s)]) \/ s[Len(s)] = ";")
    THEN Unterminated(SubSeq(s, 1, Len(s) - 1))
  ELSE s

\* where the table reference of the first FROM clause of s ends: at the
\* first clause that trails it, or at the end of the statement
TrailingClauseIndexes(s) ==
  UNION { {i \in WordIndexes(s, w) : i > FirstWordIndex(s, <<"f","r","o","m">>)} :
            w \in { <<"g","r","o","u","p">>, <<"o","r","d","e","r">>,
                    <<"l","i","m","i","t">>, <<"h","a","v","i","n","g">> } }
TableReferenceEnd(s) ==
  IF TrailingClauseIndexes(s) = {} THEN Len(Unterminated(s))
  ELSE CHOOSE i \in TrailingClauseIndexes(s) : \A j \in TrailingClauseIndexes(s) : i <= j

\* C2: a non-null statement returned by generate contains {{user_id}}.
C2_GeneratedHasPlaceholder ==
  (GenerateReturned /\ sql # None) => Contains(sql, Placeholder)

\* C6: when the extracted statement lacks {{user_id}} but has a WHERE
\* clause, generate returns it with t.user_id = '{{user_id}}' AND inserted
\* right after the first WHERE and nothing else changed.
C6_RepairAfterWhere ==
  ( /\ GenerateReturned
    /\ extracted_sql # None
    /\ ~Contains(extracted_sql, Placeholder)
    /\ HasWord(extracted_sql, <<"w","h","e","r","e">>) )
  => sql = InsertAt(extracted_sql, FirstWordIndex(extracted_sql, <<"w","h","e","r","e">>) + 5,
                    <<" ","t",".","u","s","e","r","_","i","d"," ","="," ","'","{","{","u","s","e","r","_","i","d","}","}","'"," ","A","N","D">>)

\* C7: when the extracted statement has neither {{user_id}} nor a WHERE
\* clause but has a FROM clause, generate returns it with
\* WHERE t.user_id = '{{user_id}}' inserted after the table reference
\* (alias and joins included), the trailing clauses kept after it, and
\* exactly one semicolon at the end (white space aside).
C7_RepairAfterFrom ==
  ( /\ GenerateReturned
    /\ extracted_sql # None
    /\ ~Contains(extracted_sql, Placeholder)
    /\ ~HasWord(extracted_sql, <<"w","h","e","r","e">>)
    /\ HasWord(extracted_sql, <<"f","r","o","m">>) )
  => LET body == Unterminated(extracted_sql)
         e == TableReferenceEnd(extracted_sql)
         expected == SubSeq(body, 1, e)
                       \o <<" ","W","H","E","R","E"," ","t",".","u","s","e","r","_","i","d"," ","="," ","'","{","{","u","s","e","r","_","i","d","}","}","'"," ">>
                       \o SubSeq(body, e + 1, Len(body)) \o <<";">>
     IN Squash(sql) = Squash(expected)

---------------------------------------------------------------------------
(* Properties of the orchestrator, continued (specification Spec)          *)

Responded == pc = "responded"

\* validate_input rejected the message: it was the only stage invoked
InputRejected == Responded /\ calls = <<"validate_input">>

\* C11: a response to a request that validate_input or validate_sql
\* rejected does not carry the validator's reason, in its answer or in its
\* error field (so that requests rejected by different rules get the same
\* answer and error).
C11_ReasonNotSurfaced ==
  /\ (Responded /\ ValidationRejected) =>
        /\ responses[1].error # Text(valid[2])
        /\ responses[1].answer # Text(valid[2])
  /\ InputRejected =>
        /\ responses[1].error # Text(validate_input(text)[2])
        /\ responses[1].answer # Text(validate_input(text)[2])

\* the stages of a request, in pipeline order
StageOrder == <<"validate_input", "detect", "generate", "validate_sql", "execute", "format">>
StagesInvoked == SelectSeq(calls, LAMBDA c : \E k \in 1..Len(StageOrder) : StageOrder[k] = c)
Invoked(stage) == \E k \in 1..Len(calls) : calls[k] = stage
IsPrefix(a, b) == Len(a) <= Len(b) /\ SubSeq(b, 1, Len(a)) = a
LastStage == StagesInvoked[Len(StagesInvoked)]

\* messages of the exceptions raised by the formatter itself
FormatExceptionMessages ==
  {"cannot convert float infinity to integer", "cannot convert float NaN to integer"}

BlankText == text # None /\ \A k \in 1..Len(text) : IsSpace(text[k])

\* C13: a message that is empty or white space only is answered with
\* "Please send a message.", intent unknown, should_log_expense false, and
\* no data, error or sql.
C13_BlankMessage ==
  (Responded /\ BlankText) =>
    responses = << [answer |-> Text("Please send a message."), intent |-> "unknown",
                    should_log_expense |-> FALSE, data |-> NoData, error |-> None,
                    sql |-> None] >>

\* a message of white space only was answered
C13_Witness ==
  /\ Responded
  /\ BlankText
  /\ Len(text) > 1
  /\ responses[1].answer = Text("Please send a message.")

\* the request ends outside the query pipeline: nothing was classified
\* (empty text, input rejected) or the intent is greeting, expense or unknown
OutsideQueryPipeline ==
  intents = << >> \/ intents[1] \in {"greeting", "expense", "unknown"}

\* C14: in a request that ends outside the query pipeline the SQL
\* generator, the SQL validator, the executor and the formatter are never
\* invoked and no statement is sent to the database.
C14_NothingInvoked ==
  OutsideQueryPipeline =>
    /\ \A k \in 1..Len(calls) : calls[k] \in {"validate_input", "detect"}
    /\ llm_text = NoOutcome /\ extracted_sql = None /\ sql = None
    /\ valid = << >> /\ validated = {}
    /\ executed = << >> /\ sent = << >> /\ db_rows = << >> /\ results = << >>
    /\ fmt_text = NoOutcome

\* a greeting was answered
C14_Witness ==
  /\ Responded
  /\ intents = <<"greeting">>
  /\ calls = <<"validate_input", "detect">>
  /\ sent = << >>

\* C15: the response has should_log_expense = true exactly when the
\* classified intent is expense, and then its answer is the empty string,
\* its intent is expense, and it has no data, error or sql.
C15_ShouldLogIffExpense ==
  Responded =>
    /\ responses[1].should_log_expense <=> (intents = <<"expense">>)
    /\ responses[1].should_log_expense =>
         responses[1] = [answer |-> << >>, intent |-> "expense",
                         should_log_expense |-> TRUE, data |-> NoData, error |-> None,
                         sql |-> None]

\* an expense message was answered
C15_Witness ==
  /\ Responded
  /\ intents = <<"expense">>
  /\ responses[1].should_log_expense

\* word occurs in s, in any letter case
Mentions(s, word) ==
  LET t == lower(s)
  IN \E i \in 1..(Len(t) - Len(word) + 1) : SubSeq(t, i, i + Len(word) - 1) = word

AsksForTotal(s) ==
  \/ Mentions(s, <<"h","o","w"," ","m","u","c","h">>)
  \/ Mentions(s, <<"c","u","á","n","t","o">>)
  \/ Mentions(s, <<"t","o","t","a","l">>)
AsksForListing(s) ==
  \/ Mentions(s, <<"s","h","o","w">>)
  \/ Mentions(s, <<"l","i","s","t">>)
  \/ Mentions(s, <<"m","u","e","s","t","r","a">>)

\* the request was answered after formatting an empty result
FormattedEmptyResult == Responded /\ Invoked("format") /\ results = << >>

\* C17: for an empty result the formatter returns, without calling the
\* generation model, the totals message when the question mentions
\* 'how much', 'cuánto' or 'total', else the listing message when it
\* mentions 'show', 'list' or 'muestra', else the generic message; the
\* message is not empty, and the response is a successful query response.
C17_EmptyResultMessage ==
  FormattedEmptyResult =>
    /\ responses[1].answer =
         (IF AsksForTotal(text)
            THEN Text("You haven't recorded any expenses matching that criteria yet.")
          ELSE IF AsksForListing(text)
            THEN Text("No expenses found matching your request.")
          ELSE Text("I couldn't find any data matching your question."))
    /\ responses[1].answer # << >>
    /\ responses[1].answer # Text("")
    /\ ~Invoked("format.llm")
    /\ fmt_text = NoOutcome
    /\ responses[1].intent = "query"
    /\ responses[1].error = None
    /\ responses[1].data = Data(<< >>)
    /\ raised = NoException

\* the database returned no row for a listing question that also mentions
\* a total
C17_Witness ==
  /\ FormattedEmptyResult
  /\ Len(sent) = 1
  /\ AsksForTotal(text)
  /\ AsksForListing(text)

\* the formatter's model call failed
FormatModelFailed == Responded /\ fmt_text[1] = "raise"

\* C18: when the formatter's model call fails, the answer is the fallback
\* text and the response is a successful query response: intent query,
\* data the executed rows, no error.
C18_FormatFailureNotFatal ==
  FormatModelFailed =>
    /\ responses[1].answer = fallback_format(results)
    /\ responses[1].intent = "query"
    /\ responses[1].data = Data(results)
    /\ responses[1].error = None
    /\ raised = NoException

---------------------------------------------------------------------------
(* Properties of generate, continued (specification SpecGenerator)         *)

\* the characters of s before position i (1-based) on the same line are
\* white space only
OnlySpaceBeforeOnLine(s, i) ==
  \A j \in 1..(i - 1) : (\A k \in j..(i - 1) : s[k] # "\n") => IsSpace(s[j])

\* some line of s begins, after white space, with select in any case
HasSelectLine(s) ==
  \E i \in 1..(Len(s) - 5) :
    lower(SubSeq(s, i, i + 5)) = <<"s","e","l","e","c","t">> /\ OnlySpaceBeforeOnLine(s, i)

\* nothing SELECT-shaped is in the model output s: the word select is not
\* in it at all, or s has no code fence and no line beginning with select
NoSelectShapedText(s) ==
  \/ ~Mentions(s, <<"s","e","l","e","c","t">>)
  \/ (~Mentions(s, <<Backtick>>) /\ ~HasSelectLine(s))

BlankQuestion == \A k \in 1..Len(text) : IsSpace(text[k])
GenerateCalls == SelectSeq(calls, LAMBDA c : c = "generate")
ModelCalls == SelectSeq(calls, LAMBDA c : c = "generate.llm")

\* C19: generate raises nothing; it returns null for an empty or
\* white-space question without calling the model, when the model call
\* raises, and when the model output holds nothing SELECT-shaped; the
\* orchestrator answers a null with the rephrase reply, and generate is
\* called once.
C19_GenerateReturnsNull ==
  /\ raised = NoException /\ ~escaped /\ pc # "escaped"
  /\ Len(GenerateCalls) <= 1 /\ Len(ModelCalls) <= 1
  /\ pc # "generate" =>
       /\ Len(GenerateCalls) = 1
       /\ BlankQuestion => (sql = None /\ ModelCalls = << >>)
       /\ llm_text[1] = "raise" => sql = None
       /\ (llm_text[1] = "ok" /\ NoSelectShapedText(llm_text[2])) => sql = None
  /\ (Responded /\ sql = None) =>
       responses = << [answer |-> RephraseAnswer, intent |-> "query",
                       should_log_expense |-> FALSE, data |-> NoData,
                       error |-> GenerationFailedCode, sql |-> None] >>
  /\ pc = "validate" => (sql # None /\ responses = << >>)

\* the model was given a question, its output mentions select but holds no
\* statement, and the request was answered
C19_Witness ==
  /\ Responded
  /\ ~BlankQuestion
  /\ llm_text[1] = "ok"
  /\ Mentions(llm_text[2], <<"s","e","l","e","c","t">>)
  /\ sql = None
  /\ responses[1].answer = RephraseAnswer

---------------------------------------------------------------------------
(* detect on its own (specification SpecDetector): the detector is called  *)
(* repeatedly with one text and with histories of one length.              *)

\* the number of calls of detect in the model
MaxDetectCalls == 2

DetectTexts ==
  Messages \cup
  { <<"H","o","l","a">>,
    <<"g","o","o","d"," ","m","o","r","n","i","n","g","!">>,
    <<"c","o","f","f","e","e"," ","5">>,
    <<"p","a","i","d"," ","3","0"," ","f","o","r"," ","t","h","e"," ","t","o","t","a","l","?">>,
    <<"g","r","a","c","i","a","s">>,
    <<"B","o","u","g","h","t"," ","s","h","o","e","s">>,
    <<"$"," ","1","2">>,
    <<"c","u","a","n","t","o"," ","g","a","s","t","e","?">>,
    <<"h","e","l","l","o"," ","t","h","e","r","e">>,
    <<"5"," ","e","u","r","o","s"," ","h","o","w"," ","m","u","c","h">>,
    <<"s","p","e","n","t"," ","5"," ","t","o","t","a","l">> }

\* histories of no turn and of one turn
DetectHistories ==
  Histories \cup
  { << [user |-> <<"H","i">>, bot |-> << >>] >> }

InitDetector ==
  /\ pc = "detect"
  /\ text \in DetectTexts
  /\ history \in DetectHistories
  /\ user_id = <<"u","i","d","-","a","l","i","c","e">>
  /\ llm_text = NoOutcome
  /\ extracted_sql = None
  /\ sql = None
  /\ valid = << >>
  /\ validated = {}
  /\ executed = << >>
  /\ sent = << >>
  /\ db_rows = << >>
  /\ results = << >>
  /\ raised = NoException
  /\ responses = << >>
  /\ escaped = FALSE
  /\ log = {}
  /\ calls = << >>
  /\ intents = << >>
  /\ fmt_text = NoOutcome
  /\ requests = << >>
  /\ executor = None
  /\ prompt_rows = << >>
  /\ neon_pool = None
  /\ pool_callers = << >>
  /\ db_tables = [accounts |-> << >>, transactions |-> << >>]
  /\ appliers = << >>

\* intent = self.intent_detector.detect(text, history); the next call is
\* made with any history of the same length
CallDetect ==
  /\ pc = "detect"
  /\ Len(intents) < MaxDetectCalls
  /\ intents' = Append(intents, detect(text, history))
  /\ calls' = Append(calls, "detect")
  /\ history' \in {h \in DetectHistories : Len(h) = Len(history)}
  /\ UNCHANGED <<appliers, db_tables, pool_callers, neon_pool, prompt_rows, requests, executor, pc, text, user_id, llm_text, extracted_sql, sql,
                 valid, validated,
                 executed, sent, db_rows, results, raised, responses, escaped, log,
                 fmt_text>>

NextDetector == CallDetect

SpecDetector == InitDetector /\ [][NextDetector]_vars

---------------------------------------------------------------------------
(* Concurrent requests on the shared ChatbotService (specification         *)
(* SpecConcurrent).  Each request is a call of process_message run by the  *)
(* event loop; a request runs without interruption from one await to the   *)
(* next, so an action is the code between two awaits.  requests[i] holds   *)
(* the parameters and locals of request i and the collaborators' replies   *)
(* to it; executor is the one attribute of the service that is written     *)
(* after construction.                                                     *)

\* the number of concurrent requests
NumRequests == 2

ConcurrentMessages ==
  { <<"T","o","t","a","l","?">>,
    <<"H","i","!">> }

\* the caller of request i is ConcurrentUserIds[i]
ConcurrentUserIds ==
  << <<"u","i","d","-","a","l","i","c","e">>, <<"u","i","d","-","b","o","b">>, <<"o","'","b","r","i","e","n">>, <<"u","i","d","-","c","a","r","o","l">> >>

ConcurrentGenerationOutcomes ==
  { <<"ok", <<"S","E","L","E","C","T"," ","t",".","a","m","o","u","n","t"," ","F","R","O","M"," ","t","r","a","n","s","a","c","t","i","o","n","s"," ","t"," ","W","H","E","R","E"," ","t",".","u","s","e","r","_","i","d"," ","="," ","'","{","{","u","s","e","r","_","i","d","}","}","'">>>>,
    <<"raise", "503 model overloaded">> }

\* what the database answers to a statement: a row that carries the
\* statement it answers, or nothing within QUERY_TIMEOUT
DbReplies(statement) ==
  { <<"rows", << << <<<<"d","e","s","c","r","i","p","t","i","o","n">>, <<"str", statement>>>>,
                    <<<<"a","m","o","u","n","t">>, <<"int", 12>>>> >> >> >>,
    <<"timeout", << >>>> }

InitConcurrent ==
  /\ requests \in
       { rs \in [1..NumRequests ->
                  [pc : {"received"}, text : ConcurrentMessages,
                   user_id : {ConcurrentUserIds[k] : k \in 1..NumRequests},
                   history : {<< >>}, question : {None}, llm : {NoOutcome}, sql : {None},
                   neon : {"unused"}, statement : {None}, db : {NoOutcome},
                   results : {<< >>}, fmt : {NoOutcome}, response : {<< >>}]] :
           \A i \in 1..NumRequests :
             rs[i].user_id = ConcurrentUserIds[i] }
  /\ executor = None
  /\ prompt_rows = << >>
  /\ neon_pool = None
  /\ pool_callers = << >>
  /\ db_tables = [accounts |-> << >>, transactions |-> << >>]
  /\ appliers = << >>
  /\ pc = "concurrent"
  /\ text = None
  /\ user_id = << >>
  /\ history = << >>
  /\ llm_text = NoOutcome
  /\ extracted_sql = None
  /\ sql = None
  /\ valid = << >>
  /\ validated = {}
  /\ executed = << >>
  /\ sent = << >>
  /\ db_rows = << >>
  /\ results = << >>
  /\ raised = NoException
  /\ responses = << >>
  /\ escaped = FALSE
  /\ log = {}
  /\ calls = << >>
  /\ intents = << >>
  /\ fmt_text = NoOutcome

\* request r returns resp
Returned(r, resp) == [r EXCEPT !.pc = "responded", !.response = <<resp>>]

\* a variant of call_arguments that takes the identity from the request
\* that arrived last
call_arguments_of_last(rs, i) == <<rs[i].sql, rs[Len(rs)].user_id>>

\* the arguments of executor.execute(sql, user_id) in request i: the
\* locals of its own _handle_query call
call_arguments(rs, i) == <<rs[i].sql, rs[i].user_id>>

\* process_message of request i up to its first await
ReceiveRequest(i) ==
  LET r == requests[i]
      stripped == strip(r.text)
      checked == validate_input(stripped)
      intent == detect(stripped, r.history)
  IN /\ r.pc = "received"
     /\ requests' = [requests EXCEPT ![i] =
          IF stripped = << >>
            THEN Returned(r, ChatResponse(Text("Please send a message."), "unknown", FALSE,
                                          NoData, None, None))
          ELSE IF ~Head(checked)
            THEN Returned(r, ChatResponse(
                   Text("I couldn't process that message. Please try rephrasing."),
                   "unknown", FALSE, NoData, Text(checked[2]), None))
          ELSE IF is_query_intent(intent)
            THEN [r EXCEPT !.pc = "generate", !.question = stripped]
          ELSE Returned(r, non_query_response(intent))]
     /\ UNCHANGED <<appliers, db_tables, pool_callers, neon_pool, prompt_rows, pc, text, user_id, history, llm_text, extracted_sql, sql, valid,
                    validated, executed, sent, db_rows, results, raised, responses,
                    escaped, log, calls, intents, fmt_text, executor>>

\* request i from the return of the generation model's call to the first
\* await of execute: generate's tail, validate_sql, _get_executor, and
\* execute's guard, _inject_user_id and _ensure_limit
GenerateReturns(i) ==
  LET r == requests[i]
  IN /\ r.pc = "generate"
     /\ \E outcome \in ConcurrentGenerationOutcomes, neon_ok \in BOOLEAN :
          LET generated == generate(r.question, outcome)
              r1 == [r EXCEPT !.llm = outcome, !.sql = generated]
              args == call_arguments([requests EXCEPT ![i] = r1], i)
              accepted == generated # None /\ Head(validate_sql(generated, r.user_id))
          IN /\ neon_ok \/ (accepted /\ executor = None)
             /\ IF generated = None \/ generated = << >>
                  THEN /\ requests' = [requests EXCEPT ![i] = Returned(r1, ChatResponse(
                              Text("I couldn't understand your question. Could you try rephrasing it?"),
                              "query", FALSE, NoData, Text("Failed to generate query"), None))]
                       /\ UNCHANGED executor
                ELSE IF ~accepted
                  THEN /\ requests' = [requests EXCEPT ![i] = Returned(r1, ChatResponse(
                              Text("I couldn't process that query safely. Please try a different question."),
                              "query", FALSE, NoData,
                              Text(validate_sql(generated, r.user_id)[2]), None))]
                       /\ UNCHANGED executor
                ELSE IF ~neon_ok
                  THEN /\ requests' = [requests EXCEPT ![i] =
                              Returned([r1 EXCEPT !.neon = "raise"], handle_query_except(
                                <<"Exception", "DATABASE_URL must be set in environment variables">>))]
                       /\ UNCHANGED executor
                ELSE /\ executor' = <<"QueryExecutor">>
                     /\ requests' = [requests EXCEPT ![i] =
                          IF args[1] = << >> \/ args[2] = << >>
                            THEN Returned([r1 EXCEPT !.neon = "ok"], ChatResponse(
                                   empty_response(r.question), "query", FALSE, Data(<< >>),
                                   None, generated))
                          ELSE [r1 EXCEPT !.neon = "ok", !.pc = "fetch",
                                          !.statement = ensure_limit(inject_user_id(args[1], args[2]))]]
     /\ UNCHANGED <<appliers, db_tables, pool_callers, neon_pool, prompt_rows, pc, text, user_id, history, llm_text, extracted_sql, sql, valid,
                    validated, executed, sent, db_rows, results, raised, responses,
                    escaped, log, calls, intents, fmt_text>>

\* request i from the return of conn.fetch (or the expiry of the timeout)
\* to the formatter's model call, or to the response when the formatter
\* needs no model call
FetchReturns(i) ==
  LET r == requests[i]
  IN /\ r.pc = "fetch"
     /\ \E reply \in DbReplies(r.statement) :
          LET rows == first_rows(reply[2], MAX_RESULTS)
              r1 == [r EXCEPT !.db = reply, !.results = rows]
          IN requests' = [requests EXCEPT ![i] =
               IF reply[1] = "timeout"
                 THEN Returned(r1, handle_query_except(
                        <<"TimeoutError", "Query took too long to execute">>))
               ELSE IF format_calls_model(rows) THEN [r1 EXCEPT !.pc = "format"]
               ELSE IF format_raises(rows, NoOutcome)
                 THEN Returned(r1, handle_query_except(format_exception(rows)))
               ELSE Returned(r1, ChatResponse(format(rows, r.question, NoOutcome), "query",
                                              FALSE, Data(rows), None, r.sql))]
     /\ UNCHANGED <<appliers, db_tables, pool_callers, neon_pool, prompt_rows, pc, text, user_id, history, llm_text, extracted_sql, sql, valid,
                    validated, executed, sent, db_rows, results, raised, responses,
                    escaped, log, calls, intents, fmt_text, executor>>

\* request i from the return of the formatter's model call to the response
FormatReturns(i) ==
  LET r == requests[i]
  IN /\ r.pc = "format"
     /\ \E outcome \in FormatOutcomes :
          LET r1 == [r EXCEPT !.fmt = outcome]
          IN requests' = [requests EXCEPT ![i] =
               IF format_raises(r.results, outcome)
                 THEN Returned(r1, handle_query_except(format_exception(r.results)))
               ELSE Returned(r1, ChatResponse(format(r.results, r.question, outcome), "query",
                                              FALSE, Data(r.results), None, r.sql))]
     /\ UNCHANGED <<appliers, db_tables, pool_callers, neon_pool, prompt_rows, pc, text, user_id, history, llm_text, extracted_sql, sql, valid,
                    validated, executed, sent, db_rows, results, raised, responses,
                    escaped, log, calls, intents, fmt_text, executor>>

NextConcurrent ==
  \E i \in 1..NumRequests :
    \/ ReceiveRequest(i)
    \/ GenerateReturns(i)
    \/ FetchReturns(i)
    \/ FormatReturns(i)

SpecConcurrent == InitConcurrent /\ [][NextConcurrent]_vars

\* the response process_message gives to a request with the parameters of
\* r when the collaborators reply to it as they replied to r (r.llm,
\* r.neon, r.db, r.fmt) and no other request runs
SequentialResponse(r) ==
  LET question == strip(r.text)
      generated == generate(question, r.llm)
      rows == first_rows(r.db[2], MAX_RESULTS)
  IN IF question = << >>
       THEN ChatResponse(Text("Please send a message."), "unknown", FALSE, NoData, None, None)
     ELSE IF ~Head(validate_input(question))
       THEN ChatResponse(Text("I couldn't process that message. Please try rephrasing."),
                         "unknown", FALSE, NoData, Text(validate_input(question)[2]), None)
     ELSE IF detect(question, r.history) # "query"
       THEN non_query_response(detect(question, r.history))
     ELSE IF generated = None
       THEN ChatResponse(RephraseAnswer, "query", FALSE, NoData, GenerationFailedCode, None)
     ELSE IF ~Head(validate_sql(generated, r.user_id))
       THEN ChatResponse(UnsafeAnswer, "query", FALSE, NoData,
                         Text(validate_sql(generated, r.user_id)[2]), None)
     ELSE IF r.neon = "raise"
       THEN ChatResponse(GenericAnswer, "query", FALSE, NoData,
                         Text("DATABASE_URL must be set in environment variables"), None)
     ELSE IF r.db[1] = "timeout"
       THEN ChatResponse(TimeoutAnswer, "query", FALSE, NoData, TimeoutCode, None)
     ELSE IF format_raises(rows, r.fmt)
       THEN ChatResponse(GenericAnswer, "query", FALSE, NoData,
                         Text(format_exception(rows)[2]), None)
     ELSE ChatResponse(format(rows, question, r.fmt), "query", FALSE, Data(rows), None,
                       generated)

\* the identity of r's caller as _inject_user_id writes it
QuotedIdentity(r) == replace(r.user_id, <<"'">>, <<"'","'">>)

\* C20: in every interleaving, the response of each request is the one it
\* gets when running alone with the same parameters and the same replies
\* of the collaborators; the statement sent for it is its own generated
\* SQL with its own caller's identity and holds no other caller's
\* identity; the rows and the SQL it returns are those of its own
\* statement.
C20_RequestsAreIsolated ==
  \A i \in 1..Len(requests) :
    LET r == requests[i]
    IN /\ r.pc = "responded" => r.response = <<SequentialResponse(r)>>
       /\ r.statement # None =>
            /\ r.sql = generate(strip(r.text), r.llm)
            /\ r.statement = ensure_limit(inject_user_id(r.sql, r.user_id))
            /\ Contains(r.statement, QuotedIdentity(r))
            /\ \A j \in 1..Len(requests) :
                 requests[j].user_id # r.user_id =>
                   ~Contains(r.statement, QuotedIdentity(requests[j]))
       /\ \A k \in 1..Len(r.results) : r.results[k][1][2] = <<"str", r.statement>>
       /\ (r.pc = "responded" /\ r.response[1].data # NoData) =>
            /\ r.response[1].data = Data(r.results)
            /\ r.response[1].sql = r.sql

\* two requests of different callers were answered with rows, the second
\* having been sent to the database before the first and answered after it
C20_Witness ==
  /\ Len(requests) >= 2
  /\ requests[1].user_id # requests[2].user_id
  /\ requests[1].pc = "responded" /\ requests[2].pc = "responded"
  /\ requests[1].results # << >> /\ requests[2].results # << >>
  /\ requests[1].fmt[1] = "raise" /\ requests[2].fmt[1] = "ok"

---------------------------------------------------------------------------
(* The order of detect's rules.                                            *)

\* the rules of detect on the stripped text, in the order of the claim,
\* each a pair of the rule's condition and the intent it gives
DetectRules(t0, hist) ==
  LET t == lower(strip(t0))
      expense_score == CountTrue(ExpensePattern(t))
      query_score == CountTrue(QueryPattern(t))
  IN << <<GreetingPattern(t), "greeting">>,
        <<expense_score > 0 /\ expense_score >= query_score, "expense">>,
        <<query_score > 0, "query">>,
        <<t # << >> /\ t[Len(t)] = "?", "query">>,
        <<has_amount_pattern(t), "expense">>,
        <<hist # << >>, "query">>,
        <<TRUE, "query">> >>

\* the intent of the first rule whose condition holds
FirstApplicable(rules) ==
  LET k == CHOOSE k \in 1..Len(rules) :
             rules[k][1] /\ \A j \in 1..(k - 1) : ~rules[j][1]
  IN rules[k][2]

---------------------------------------------------------------------------
(* Single-statement enforcement.                                           *)

\* the number of single quotes among the first n characters of s
RECURSIVE QuotesBefore(_, _)
QuotesBefore(s, n) ==
  IF n = 0 THEN 0 ELSE QuotesBefore(s, n - 1) + (IF s[n] = "'" THEN 1 ELSE 0)

\* a semicolon outside a string literal ends a statement, and a word
\* follows it: the text of a further statement
HasFurtherStatement(s) ==
  \E i \in 1..Len(s) :
    /\ s[i] = ";"
    /\ QuotesBefore(s, i) % 2 = 0
    /\ \E k \in (i + 1)..Len(s) : IsWordChar(s[k])

\* C22: validate_sql rejects every SQL text in which a statement
\* terminator is followed by the text of a further statement.
C22_SingleStatement ==
  (ValidateSqlReturned /\ HasFurtherStatement(sql)) => ~Head(valid)

---------------------------------------------------------------------------
(* The executor's guard on empty arguments.                                *)

\* execute was called with an empty sql or an empty user_id
ExecutedWithEmptyArgument ==
  /\ executed # << >>
  /\ \/ Head(executed)[1] = None \/ Head(executed)[1] = << >>
     \/ Head(executed)[2] = None \/ Head(executed)[2] = << >>

\* a successful query response: intent query, no error, and data and sql
\* present
SuccessfulQueryResponse(r) ==
  /\ r.intent = "query"
  /\ r.error = None
  /\ r.data # NoData
  /\ r.sql # None

\* C23: when the sql or the user_id passed to execute is empty, no
\* statement is sent to the database and the request is not answered with
\* a successful query response.
C23_EmptyArgumentRejected ==
  ExecutedWithEmptyArgument =>
    /\ sent = << >>
    /\ Responded => ~SuccessfulQueryResponse(responses[1])

\* the part of C23 that holds: no statement is sent
C23_NothingSent == ExecutedWithEmptyArgument => sent = << >>

---------------------------------------------------------------------------
(* QueryExecutor.execute on its own (specification SpecExecutor): the      *)
(* call is made with a statement that validate_sql accepted and with any   *)
(* of a set of caller identities.                                          *)

\* statements offered to the validator before execute is called
ExecutorStatements ==
  { <<"S","E","L","E","C","T"," ","t",".","a","m","o","u","n","t"," ","F","R","O","M"," ","t","r","a","n","s","a","c","t","i","o","n","s"," ","t"," ","W","H","E","R","E"," ","t",".","u","s","e","r","_","i","d"," ","="," ","'","{","{","u","s","e","r","_","i","d","}","}","'">>,
    <<"S","E","L","E","C","T"," ","t",".","a","m","o","u","n","t"," ","F","R","O","M"," ","t","r","a","n","s","a","c","t","i","o","n","s"," ","t"," ","W","H","E","R","E"," ","t",".","u","s","e","r","_","i","d"," ","="," ","'","{","{","u","s","e","r","_","i","d","}","}","'",";">>,
    <<"S","E","L","E","C","T"," ","t",".","a","m","o","u","n","t"," ","F","R","O","M"," ","t","r","a","n","s","a","c","t","i","o","n","s"," ","t"," ","W","H","E","R","E"," ","t",".","u","s","e","r","_","i","d"," ","="," ","'","{","{","u","s","e","r","_","i","d","}","}","'"," ","O","R","D","E","R"," ","B","Y"," ","t",".","a","m","o","u","n","t"," ","D","E","S","C"," ","L","I","M","I","T"," ","5",";">>,
    <<"S","E","L","E","C","T"," ","t",".","a","m","o","u","n","t"," ","F","R","O","M"," ","t","r","a","n","s","a","c","t","i","o","n","s"," ","t"," ","W","H","E","R","E"," ","t",".","u","s","e","r","_","i","d"," ","="," ","'","{","{","u","s","e","r","_","i","d","}","}","'"," ","A","N","D"," ","t",".","d","e","s","c","r","i","p","t","i","o","n"," ","I","L","I","K","E"," ","'","%","l","i","m","i","t","%","'",";">>,
    <<"S","E","L","E","C","T"," ","S","U","M","(","t",".","a","m","o","u","n","t",")"," ","A","S"," ","u","n","l","i","m","i","t","e","d","_","t","o","t","a","l"," ","F","R","O","M"," ","t","r","a","n","s","a","c","t","i","o","n","s"," ","t"," ","W","H","E","R","E"," ","t",".","u","s","e","r","_","i","d"," ","="," ","'","{","{","u","s","e","r","_","i","d","}","}","'">>,
    <<"S","E","L","E","C","T"," ","t",".","a","m","o","u","n","t"," ","F","R","O","M"," ","t","r","a","n","s","a","c","t","i","o","n","s"," ","t"," ","J","O","I","N"," ","c","a","t","e","g","o","r","i","e","s"," ","c"," ","O","N"," ","c",".","u","s","e","r","_","i","d"," ","="," ","'","{","{","u","s","e","r","_","i","d","}","}","'"," ","W","H","E","R","E"," ","t",".","u","s","e","r","_","i","d"," ","="," ","'","{","{","u","s","e","r","_","i","d","}","}","'",";",";">>,
    <<"S","E","L","E","C","T"," ","t",".","a","m","o","u","n","t"," ","F","R","O","M"," ","t","r","a","n","s","a","c","t","i","o","n","s"," ","t"," ","W","H","E","R","E"," ","t",".","u","s","e","r","_","i","d"," ","="," ","'","{","{","u","s","e","r","_","i","d","}","}","'"," ",";">>,
    <<"S","E","L","E","C","T"," ","t",".","a","m","o","u","n","t"," ","F","R","O","M"," ","t","r","a","n","s","a","c","t","i","o","n","s"," ","t"," ","W","H","E","R","E"," ","'","{","{","u","s","e","r","_","i","d","}","}","'"," ","="," ","t",".","u","s","e","r","_","i","d"," ","A","N","D"," ","t",".","a","m","o","u","n","t"," ",">"," ","5"," ","l","i","m","i","t"," ","7">>,
    <<"D","E","L","E","T","E"," ","F","R","O","M"," ","t","r","a","n","s","a","c","t","i","o","n","s",";">> }

\* caller identities: plain, with single quotes, with a backslash, with
\* the word limit, with the text of the placeholder, and empty
ExecutorUserIds ==
  { <<"u","i","d","-","a","l","i","c","e">>,
    <<"o","'","b","r","i","e","n">>,
    <<"'">>,
    <<"x","'","'">>,
    <<"l","i","m","i","t","l","e","s","s","-","9","9">>,
    <<"{","{","u","s","e","r","_","i","d","}","}">>,
    <<"a","\\">>,
    <<"'"," ","O","R"," ","'","1","'","=","'","1">>,
    << >> }

InitExecutor ==
  /\ pc = "execute"
  /\ sql \in {s \in ExecutorStatements : Head(validate_sql(s, <<"u">>))}
  /\ user_id \in ExecutorUserIds
  /\ text = None
  /\ history = << >>
  /\ llm_text = NoOutcome
  /\ extracted_sql = None
  /\ valid = <<TRUE, "">>
  /\ validated = {sql}
  /\ executed = << >>
  /\ sent = << >>
  /\ db_rows = << >>
  /\ results = << >>
  /\ raised = NoException
  /\ responses = << >>
  /\ escaped = FALSE
  /\ log = {}
  /\ calls = << >>
  /\ intents = << >>
  /\ fmt_text = NoOutcome
  /\ requests = << >>
  /\ executor = None
  /\ prompt_rows = << >>
  /\ neon_pool = None
  /\ pool_callers = << >>
  /\ db_tables = [accounts |-> << >>, transactions |-> << >>]
  /\ appliers = << >>

NextExecutor == ExecuteCall

SpecExecutor == InitExecutor /\ [][NextExecutor]_vars

---------------------------------------------------------------------------
(* The statement that execute sends.                                       *)

\* execute sent a statement
StatementSent == pc = "fetch" /\ Len(sent) = 1

\* u with each single quote written twice
RECURSIVE QuotesDoubled(_)
QuotesDoubled(u) ==
  IF u = << >> THEN << >>
  ELSE (IF Head(u) = "'" THEN <<"'", "'">> ELSE <<Head(u)>>) \o QuotesDoubled(Tail(u))

\* s with v in place of every occurrence of the placeholder, the
\* occurrences being taken from the left
RECURSIVE Substituted(_, _)
Substituted(s, v) ==
  LET hits == {i \in 0..Len(s) : MatchAt(s, <<"{","{","u","s","e","r","_","i","d","}","}">>, i)}
  IN IF hits = {} THEN s
     ELSE LET first == CHOOSE i \in hits : \A j \in hits : i <= j
          IN SubSeq(s, 1, first) \o v \o Substituted(SubSeq(s, first + 12, Len(s)), v)

\* statement is body, or body with " LIMIT 100;" in place of its trailing
\* semicolons and white space
SameApartFromLimit(statement, body) ==
  \/ statement = body
  \/ \E n \in 0..Len(body) :
       /\ \A k \in (n + 1)..Len(body) : body[k] = ";" \/ IsSpace(body[k])
       /\ statement = SubSeq(body, 1, n) \o <<" ","L","I","M","I","T"," ","1","0","0",";">>

\* the index of the quote that ends the string literal whose contents
\* begin at index i of s ('' inside a literal is one quote), or 0 when the
\* literal is not ended
RECURSIVE LiteralEnd(_, _)
LiteralEnd(s, i) ==
  IF i > Len(s) THEN 0
  ELSE IF s[i] # "'" THEN LiteralEnd(s, i + 1)
  ELSE IF i < Len(s) /\ s[i + 1] = "'" THEN LiteralEnd(s, i + 2)
  ELSE i

\* the literal 'v' ends at its last quote and not inside v
EnclosedAsOneLiteral(v) ==
  LiteralEnd(<<"'">> \o v \o <<"'">>, 2) = Len(v) + 2

\* the statement sent is the validated SQL with the quote-doubled identity
\* in place of every placeholder, apart from the LIMIT, and the identity
\* stays inside the literal that encloses it
SubstitutedVerbatim ==
  /\ SameApartFromLimit(Head(sent), Substituted(sql, QuotesDoubled(user_id)))
  /\ Contains(sql, <<"'","{","{","u","s","e","r","_","i","d","}","}","'">>) =>
       Contains(Head(sent), <<"'">> \o QuotesDoubled(user_id) \o <<"'">>)
  /\ EnclosedAsOneLiteral(QuotesDoubled(user_id))

HasLimitClause(s) ==
  LET t == lower(s)
  IN \E i \in 0..(Len(t) - 5) :
       /\ MatchAt(t, <<"l","i","m","i","t">>, i)
       /\ i > 0 => ~IsWordChar(t[i])
       /\ QuotesBefore(t, i) % 2 = 0
       /\ \E j \in (i + 6)..Len(t) : AllSpaces(t, i + 5, j) /\ j < Len(t) /\ IsDigit(t[j + 1])

\* C25: for a statement with no LIMIT clause, whatever the caller's
\* identity and whatever identifiers or string literals the statement
\* contains, the statement sent ends with " LIMIT 100;" appended in place
\* of the trailing semicolon; a statement that has a LIMIT clause is sent
\* with that clause unchanged.
C25_LimitAppended ==
  StatementSent =>
    LET body == Substituted(sql, QuotesDoubled(user_id))
    IN IF HasLimitClause(sql)
         THEN Head(sent) = body
       ELSE /\ endswith(Head(sent), <<" ","L","I","M","I","T"," ","1","0","0",";">>)
            /\ SameApartFromLimit(Head(sent), body)

\* the part of C25 that holds: the same, for a statement and an identity
\* in which the letters limit do not occur
C25_LimitAppendedUnlessMentioned ==
  (StatementSent /\ (HasLimitClause(sql) \/ ~Contains(lower(Substituted(sql, QuotesDoubled(user_id))), <<"l","i","m","i","t">>))) =>
    C25_LimitAppended

---------------------------------------------------------------------------
(* What the formatter gives to the generation model.                       *)

\* the result given to format is neither empty nor a single scalar, and
\* format has run
FormattedRows ==
  /\ Invoked("format")
  /\ results # << >>
  /\ ~(Len(results) = 1 /\ Len(results[1]) = 1)

\* row without the four internal columns, the other columns in order
WithoutInternalColumns(row) ==
  LET kept == {k \in 1..Len(row) :
                 row[k][1] \notin { <<"i","d">>, <<"u","s","e","r","_","i","d">>,
                                    <<"a","c","c","o","u","n","t","_","i","d">>,
                                    <<"c","a","t","e","g","o","r","y","_","i","d">> }}
      nth(n) == CHOOSE k \in kept : Cardinality({j \in kept : j < k}) = n - 1
  IN [n \in 1..Cardinality(kept) |-> row[nth(n)]]

\* the row-count disclaimer for a result of n rows
Disclaimer(n) ==
  <<"\n","\n","(","S","h","o","w","i","n","g"," ","f","i","r","s","t"," ","2","0"," ","o","f"," ">>
    \o str_of_int(n) \o <<" ","r","e","s","u","l","t","s",")">>

\* C26: for a result that is neither empty nor a single scalar, the rows
\* given to the generation model are the first 20 rows at most, without
\* the columns id, user_id, account_id and category_id; the disclaimer is
\* appended to the model's answer if and only if the result has more than
\* 20 rows, and it reports the number of rows of the result.
C26_PromptRowsAndDisclaimer ==
  FormattedRows =>
    /\ Len(prompt_rows) = (IF Len(results) <= 20 THEN Len(results) ELSE 20)
    /\ \A i \in 1..Len(prompt_rows) : prompt_rows[i] = WithoutInternalColumns(results[i])
    /\ (Responded /\ fmt_text[1] = "ok") =>
         LET answer == responses[1].answer
         IN /\ Len(results) > 20 => endswith(answer, Disclaimer(Len(results)))
            /\ Len(results) <= 20 => answer = strip(fmt_text[2])
            /\ Contains(answer, <<"(","S","h","o","w","i","n","g"," ","f","i","r","s","t">>)
                 <=> Len(results) > 20

\* a result of 21 rows with an id column was formatted by the model
C26_Witness ==
  /\ FormattedRows /\ Responded
  /\ fmt_text[1] = "ok"
  /\ Len(results) = 21
  /\ Len(prompt_rows) = 20
  /\ results[1][1][1] = <<"i","d">>
  /\ Len(prompt_rows[1]) = Len(results[1]) - 1

---------------------------------------------------------------------------
(* The unknown intent.                                                     *)

\* the reply of process_message's unknown-intent branch
GuidanceAnswer ==
  Text("I'm not sure what you're asking. You can:\n- Ask about your expenses (e.g., 'How much did I spend this month?')\n- Log an expense (e.g., 'Spent 25 on lunch')")

---------------------------------------------------------------------------
(* The shape of every ChatResponse.                                        *)

\* C28: in every ChatResponse that process_message returns, data and sql
\* are present only in a successful query response (intent query, no
\* error, both data and sql present); a response that carries an error has
\* intent unknown or query and neither data nor sql; the intent is one of
\* query, expense, greeting and unknown.
C28_ResponseShape ==
  \A i \in 1..Len(responses) :
    LET r == responses[i]
    IN /\ r.intent \in {"query", "expense", "greeting", "unknown"}
       /\ (r.data # NoData \/ r.sql # None) =>
            (r.intent = "query" /\ r.error = None /\ r.data # NoData /\ r.sql # None)
       /\ r.error # None =>
            (r.intent \in {"unknown", "query"} /\ r.data = NoData /\ r.sql = None)
       /\ r.should_log_expense \in BOOLEAN

\* a successful query response with rows and a response with an error
\* are both reachable; this one is the successful response
C28_Witness ==
  /\ Responded
  /\ responses[1].data # NoData /\ responses[1].data # Data(<< >>)
  /\ responses[1].sql = sql
  /\ responses[1].error = None
  /\ responses[1].intent = "query"

---------------------------------------------------------------------------
(* NeonConfig.get_pool (database/neon_client.py) called by concurrent      *)
(* coroutines on the one NeonConfig that get_neon_config caches            *)
(* (specification SpecPool).  The event loop runs a coroutine without      *)
(* interruption from one await to the next, so an action is the code       *)
(* between two awaits: the test of self._pool up to await                  *)
(* asyncpg.create_pool(...), and the assignment and return after it.  A    *)
(* pool is named by the caller and the call that created it.               *)

\* the number of coroutines that call get_pool
NumPoolCallers == 3
\* the number of calls of get_pool each coroutine makes, one after another
MaxGetPoolCalls == 2

\* the pool that call n of caller i creates
NewPool(i, n) == <<"Pool", i, n>>

\* a caller before its first call
IdleCaller == [pc |-> "idle", calls |-> 0, created |-> << >>, obtained |-> << >>, failed |-> 0]

InitPool ==
  /\ pc = "get_pool"
  /\ text = None
  /\ user_id = <<"u","i","d","-","a","l","i","c","e">>
  /\ history = << >>
  /\ llm_text = NoOutcome
  /\ extracted_sql = None
  /\ sql = None
  /\ valid = << >>
  /\ validated = {}
  /\ executed = << >>
  /\ sent = << >>
  /\ db_rows = << >>
  /\ results = << >>
  /\ raised = NoException
  /\ responses = << >>
  /\ escaped = FALSE
  /\ log = {}
  /\ calls = << >>
  /\ intents = << >>
  /\ fmt_text = NoOutcome
  /\ requests = << >>
  /\ executor = None
  /\ prompt_rows = << >>
  /\ neon_pool = None
  /\ pool_callers = [i \in 1..NumPoolCallers |-> IdleCaller]
  /\ db_tables = [accounts |-> << >>, transactions |-> << >>]
  /\ appliers = << >>

\* get_pool up to its await: if self._pool is None, the coroutine calls
\* asyncpg.create_pool and is suspended; otherwise it returns self._pool
GetPoolCalled(i) ==
  /\ pool_callers[i].pc \in {"idle", "returned", "raised"}
  /\ pool_callers[i].calls < MaxGetPoolCalls
  /\ LET c == pool_callers[i]
     IN IF neon_pool = None
          THEN pool_callers' = [pool_callers EXCEPT ![i] =
                 [c EXCEPT !.pc = "create_pool", !.calls = c.calls + 1]]
        ELSE pool_callers' = [pool_callers EXCEPT ![i] =
                 [c EXCEPT !.pc = "returned", !.calls = c.calls + 1,
                           !.obtained = Append(c.obtained, neon_pool)]]
  /\ UNCHANGED neon_pool
  /\ UNCHANGED <<appliers, db_tables, prompt_rows, requests, executor, pc, text, user_id, history, llm_text,
                 extracted_sql, sql, valid, validated, executed, sent, db_rows,
                 results, raised, responses, escaped, log, calls, intents, fmt_text>>

\* await asyncpg.create_pool(...) returns a new pool: self._pool = pool;
\* return self._pool
CreatePoolReturns(i) ==
  /\ pool_callers[i].pc = "create_pool"
  /\ LET c == pool_callers[i]
         pool == NewPool(i, c.calls)
     IN /\ neon_pool' = pool
        /\ pool_callers' = [pool_callers EXCEPT ![i] =
             [c EXCEPT !.pc = "returned", !.created = Append(c.created, pool),
                       !.obtained = Append(c.obtained, pool)]]
  /\ UNCHANGED <<appliers, db_tables, prompt_rows, requests, executor, pc, text, user_id, history, llm_text,
                 extracted_sql, sql, valid, validated, executed, sent, db_rows,
                 results, raised, responses, escaped, log, calls, intents, fmt_text>>

\* await asyncpg.create_pool(...) raises: the except clause logs and
\* raises again, self._pool is not assigned
CreatePoolRaises(i) ==
  /\ pool_callers[i].pc = "create_pool"
  /\ pool_callers' = [pool_callers EXCEPT ![i] =
       [@ EXCEPT !.pc = "raised", !.failed = @ + 1]]
  /\ UNCHANGED neon_pool
  /\ UNCHANGED <<appliers, db_tables, prompt_rows, requests, executor, pc, text, user_id, history, llm_text,
                 extracted_sql, sql, valid, validated, executed, sent, db_rows,
                 results, raised, responses, escaped, log, calls, intents, fmt_text>>

NextPool ==
  \E i \in 1..NumPoolCallers :
    \/ GetPoolCalled(i)
    \/ CreatePoolReturns(i)
    \/ CreatePoolRaises(i)

SpecPool == InitPool /\ [][NextPool]_vars

\* the pools created so far and the pools the callers obtained
RECURSIVE PoolsOf(_, _)
PoolsOf(field, i) ==
  IF i = 0 THEN {}
  ELSE {pool_callers[i][field][k] : k \in 1..Len(pool_callers[i][field])} \cup PoolsOf(field, i - 1)
PoolsCreated == PoolsOf("created", Len(pool_callers))
PoolsObtained == PoolsOf("obtained", Len(pool_callers))

\* C29: in every interleaving of concurrent callers of get_pool on the
\* shared configuration object, the pool is created at most once and every
\* caller obtains that same pool; no pool is created and then overwritten
\* or leaked.
C29_PoolCreatedOnce ==
  /\ Cardinality(PoolsCreated) <= 1
  /\ Cardinality(PoolsObtained) <= 1
  /\ \A p \in PoolsCreated \cup PoolsObtained : neon_pool = p

\* the part of C29 that holds: a caller that finds a pool set returns it
\* without creating one, and self._pool is always the pool created last
C29_PoolIsSomeCreatedPool ==
  /\ neon_pool # None => neon_pool \in PoolsCreated
  /\ PoolsObtained \subseteq PoolsCreated

---------------------------------------------------------------------------
(* FixedExpenseService.apply_fixed_expenses_for_month                      *)
(* (services/fixed_expense_service.py) called for one user and one month   *)
(* by the startup run, the daily job and the manual endpoint               *)
(* (specification SpecFixedExpenses).  Every call runs on the event loop   *)
(* and awaits each database statement, so an action is one statement's     *)
(* return together with the code up to the next await.  No statement runs  *)
(* inside a transaction: the database executes each statement by itself.   *)

\* the number of calls of apply_fixed_expenses_for_month
NumAppliers == 2

\* the year and month arguments of every call
AppliedMonth == [year |-> 2026, month |-> 2]
ApplyYear == AppliedMonth.year
ApplyMonth == AppliedMonth.month

\* calendar.monthrange(year, month)[1]
IsLeapYear(y) == (y % 4 = 0 /\ y % 100 # 0) \/ y % 400 = 0
LastDayOfMonth(y, m) ==
  IF m = 2 THEN (IF IsLeapYear(y) THEN 29 ELSE 28)
  ELSE IF m \in {4, 6, 9, 11} THEN 30 ELSE 31

\* date(y, m, d).weekday(): Monday is 0
MonthOffsets == <<0, 3, 2, 5, 0, 3, 5, 1, 4, 6, 2, 4>>
Weekday(y, m, d) ==
  LET yy == IF m < 3 THEN y - 1 ELSE y
      sunday0 == (yy + (yy \div 4) - (yy \div 100) + (yy \div 400) + MonthOffsets[m] + d) % 7
  IN (sunday0 + 6) % 7

\* the rows of fixed_expenses that get_fixed_expenses returns for the
\* user, in the order of its ORDER BY; day_of_week is << >> for NULL
FixedExpenses ==
  << [id |-> "fe-cleaning", fixed_interval |-> "weekly", day_of_month |-> 1, day_of_week |-> <<6>>,
      is_active |-> TRUE, category_id |-> "cat-home", amount |-> 40, description |-> "Cleaning", currency |-> "EUR"],
     [id |-> "fe-market", fixed_interval |-> "weekly", day_of_month |-> 1, day_of_week |-> << >>,
      is_active |-> TRUE, category_id |-> "cat-food", amount |-> 25, description |-> "Market", currency |-> "EUR"],
     [id |-> "fe-rent", fixed_interval |-> "monthly", day_of_month |-> 31, day_of_week |-> << >>,
      is_active |-> TRUE, category_id |-> "cat-home", amount |-> 900, description |-> "Rent", currency |-> "EUR"],
     [id |-> "fe-gym", fixed_interval |-> "monthly", day_of_month |-> 5, day_of_week |-> << >>,
      is_active |-> FALSE, category_id |-> "cat-sport", amount |-> 30, description |-> "Gym", currency |-> "USD"] >>

\* active_fixed_expenses = [fe for fe in fixed_expenses if fe.get("is_active", True)]
active_fixed_expenses == SelectSeq(FixedExpenses, LAMBDA fe : fe.is_active)

\* a set of days of the month as the list of them in increasing order
InOrder(days) ==
  LET nth(n) == CHOOSE d \in days : Cardinality({e \in days : e < d}) = n - 1
  IN [n \in 1..Cardinality(days) |-> nth(n)]

\* dates_to_apply of one fixed expense, as days of the month
dates_to_apply(fe, y, m) ==
  LET last_day == LastDayOfMonth(y, m)
  IN IF fe.fixed_interval = "daily" THEN InOrder(1..last_day)
     ELSE IF fe.fixed_interval = "weekly"
       THEN IF fe.day_of_week = << >> THEN << >>
            ELSE LET days_ahead == (Head(fe.day_of_week) - Weekday(y, m, 1)) % 7
                 IN InOrder({d \in 1..last_day : d >= 1 + days_ahead /\ (d - 1 - days_ahead) % 7 = 0})
     ELSE IF fe.fixed_interval \in {"monthly", "yearly"}
       THEN << IF fe.day_of_month < last_day THEN fe.day_of_month ELSE last_day >>
     ELSE << >>

\* the index of the first fixed expense from index k on that has a date
\* to apply (the others are skipped by continue), or 0 when there is none
RECURSIVE NextTemplate(_)
NextTemplate(k) ==
  IF k > Len(active_fixed_expenses) THEN 0
  ELSE IF dates_to_apply(active_fixed_expenses[k], ApplyYear, ApplyMonth) # << >> THEN k
  ELSE NextTemplate(k + 1)

\* SELECT id FROM transactions WHERE user_id, category_id, amount,
\* description, DATE(occurred_at) and type match
existing(rows, fe, day) ==
  \E k \in 1..Len(rows) :
    /\ rows[k].category_id = fe.category_id
    /\ rows[k].amount = fe.amount
    /\ rows[k].description = fe.description
    /\ rows[k].occurred_at = <<ApplyYear, ApplyMonth, day>>
    /\ rows[k].type = "expense"

\* every date to apply of every active fixed expense has its transaction
MonthApplied ==
  \A k \in 1..Len(active_fixed_expenses) :
    LET fe == active_fixed_expenses[k]
        dates == dates_to_apply(fe, ApplyYear, ApplyMonth)
    IN \A n \in 1..Len(dates) : existing(db_tables.transactions, fe, dates[n])

\* a call that has not been made yet
IdleApplier ==
  [pc |-> "idle", template |-> 0, date |-> 0, account_id |-> "", created_count |-> 0,
   month_was_applied |-> FALSE]

InitFixedExpenses ==
  /\ pc = "apply_fixed_expenses"
  /\ text = None
  /\ user_id = <<"u","i","d","-","a","l","i","c","e">>
  /\ history = << >>
  /\ llm_text = NoOutcome
  /\ extracted_sql = None
  /\ sql = None
  /\ valid = << >>
  /\ validated = {}
  /\ executed = << >>
  /\ sent = << >>
  /\ db_rows = << >>
  /\ results = << >>
  /\ raised = NoException
  /\ responses = << >>
  /\ escaped = FALSE
  /\ log = {}
  /\ calls = << >>
  /\ intents = << >>
  /\ fmt_text = NoOutcome
  /\ requests = << >>
  /\ executor = None
  /\ prompt_rows = << >>
  /\ neon_pool = None
  /\ pool_callers = << >>
  /\ db_tables = [accounts |-> << >>, transactions |-> << >>]
  /\ appliers = [i \in 1..NumAppliers |-> IdleApplier]

\* the locals of a call after the work on date n of template k is over:
\* the next date, the next template that has dates, or the return
AfterDate(a, k, n) ==
  IF n < Len(dates_to_apply(active_fixed_expenses[k], ApplyYear, ApplyMonth))
    THEN [a EXCEPT !.pc = "select_existing", !.date = n + 1]
  ELSE IF NextTemplate(k + 1) # 0
    THEN [a EXCEPT !.pc = "select_account", !.template = NextTemplate(k + 1), !.date = 0]
  ELSE [a EXCEPT !.pc = "returned"]

\* the locals of a call after the work on template k was abandoned
AfterTemplate(a, k) ==
  IF NextTemplate(k + 1) # 0
    THEN [a EXCEPT !.pc = "select_account", !.template = NextTemplate(k + 1), !.date = 0]
  ELSE [a EXCEPT !.pc = "returned"]

\* what every action of this specification leaves unchanged
OtherVariablesUnchanged ==
  UNCHANGED <<neon_pool, pool_callers, prompt_rows, requests, executor, pc, text, user_id,
              history, llm_text, extracted_sql, sql, valid, validated, executed, sent,
              db_rows, results, raised, responses, escaped, log, calls, intents, fmt_text>>

\* apply_fixed_expenses_for_month is called: await self.get_fixed_expenses
ApplyCalled(i) ==
  /\ appliers[i].pc = "idle"
  /\ appliers' = [appliers EXCEPT ![i] =
       [@ EXCEPT !.pc = "get_fixed_expenses", !.month_was_applied = MonthApplied]]
  /\ UNCHANGED db_tables
  /\ OtherVariablesUnchanged

\* get_fixed_expenses returns: return 0 when no fixed expense is active,
\* otherwise the loop starts with the first fixed expense that has dates
GetFixedExpensesReturns(i) ==
  /\ appliers[i].pc = "get_fixed_expenses"
  /\ appliers' = [appliers EXCEPT ![i] =
       IF active_fixed_expenses = << >> \/ NextTemplate(1) = 0
         THEN [@ EXCEPT !.pc = "returned"]
       ELSE [@ EXCEPT !.pc = "select_account", !.template = NextTemplate(1)]]
  /\ UNCHANGED db_tables
  /\ OtherVariablesUnchanged

\* _get_or_create_default_account: SELECT id FROM accounts ... LIMIT 1
\* returns
SelectAccountReturns(i) ==
  /\ appliers[i].pc = "select_account"
  /\ appliers' = [appliers EXCEPT ![i] =
       IF db_tables.accounts # << >>
         THEN [@ EXCEPT !.pc = "select_existing", !.date = 1, !.account_id = Head(db_tables.accounts)]
       ELSE [@ EXCEPT !.pc = "insert_account"]]
  /\ UNCHANGED db_tables
  /\ OtherVariablesUnchanged

\* _get_or_create_default_account: INSERT INTO accounts returns
InsertAccountReturns(i) ==
  /\ appliers[i].pc = "insert_account"
  /\ LET account_id == <<"account", i, appliers[i].template>>
     IN /\ db_tables' = [db_tables EXCEPT !.accounts = Append(@, account_id)]
        /\ appliers' = [appliers EXCEPT ![i] =
             [@ EXCEPT !.pc = "select_existing", !.date = 1, !.account_id = account_id]]
  /\ OtherVariablesUnchanged

\* the SELECT that looks for the transaction of the current date returns:
\* continue when it exists, otherwise the INSERT is sent
SelectExistingReturns(i) ==
  /\ appliers[i].pc = "select_existing"
  /\ LET a == appliers[i]
         fe == active_fixed_expenses[a.template]
         day == dates_to_apply(fe, ApplyYear, ApplyMonth)[a.date]
     IN appliers' = [appliers EXCEPT ![i] =
          IF existing(db_tables.transactions, fe, day) THEN AfterDate(a, a.template, a.date)
          ELSE [a EXCEPT !.pc = "insert_transaction"]]
  /\ UNCHANGED db_tables
  /\ OtherVariablesUnchanged

\* INSERT INTO transactions ... RETURNING id returns: created_count += 1
InsertTransactionReturns(i) ==
  /\ appliers[i].pc = "insert_transaction"
  /\ LET a == appliers[i]
         fe == active_fixed_expenses[a.template]
         day == dates_to_apply(fe, ApplyYear, ApplyMonth)[a.date]
         row == [id |-> <<"transaction", i, a.template, a.date>>, fixed_expense |-> fe.id,
                 account_id |-> a.account_id, category_id |-> fe.category_id,
                 type |-> "expense", amount |-> fe.amount, currency |-> fe.currency,
                 description |-> fe.description,
                 occurred_at |-> <<ApplyYear, ApplyMonth, day>>, is_fixed |-> TRUE]
     IN /\ db_tables' = [db_tables EXCEPT !.transactions = Append(@, row)]
        /\ appliers' = [appliers EXCEPT ![i] =
             AfterDate([a EXCEPT !.created_count = @ + 1], a.template, a.date)]
  /\ OtherVariablesUnchanged

\* a statement of the loop body raises: except Exception logs and
\* continues with the next fixed expense
StatementRaises(i) ==
  /\ appliers[i].pc \in {"select_account", "insert_account", "select_existing", "insert_transaction"}
  /\ appliers' = [appliers EXCEPT ![i] = AfterTemplate(@, @.template)]
  /\ UNCHANGED db_tables
  /\ OtherVariablesUnchanged

NextFixedExpenses ==
  \E i \in 1..NumAppliers :
    \/ ApplyCalled(i)
    \/ GetFixedExpensesReturns(i)
    \/ SelectAccountReturns(i)
    \/ InsertAccountReturns(i)
    \/ SelectExistingReturns(i)
    \/ InsertTransactionReturns(i)
    \/ StatementRaises(i)

SpecFixedExpenses == InitFixedExpenses /\ [][NextFixedExpenses]_vars

\* the transactions created from fixed expense id for day d
CreatedFor(id, d) ==
  {k \in 1..Len(db_tables.transactions) :
     /\ db_tables.transactions[k].fixed_expense = id
     /\ db_tables.transactions[k].occurred_at = <<ApplyYear, ApplyMonth, d>>}

\* C30: applying the fixed expenses of one user and month more than once,
\* one call after another or concurrently, creates at most one
\* transaction for each active fixed expense and due date; a call made
\* once the month has been applied creates no transaction.
C30_AppliedAtMostOnce ==
  /\ \A k \in 1..Len(FixedExpenses), d \in 1..31 :
       Cardinality(CreatedFor(FixedExpenses[k].id, d)) <= 1
  /\ \A i \in 1..Len(appliers) :
       appliers[i].month_was_applied => appliers[i].created_count = 0

\* the part of C30 that holds: a call made once the month has been
\* applied creates no transaction, and nothing is created for an inactive
\* fixed expense or for a day that is not due
C30_AppliedMonthStaysApplied ==
  /\ \A i \in 1..Len(appliers) :
       appliers[i].month_was_applied => appliers[i].created_count = 0
  /\ \A k \in 1..Len(db_tables.transactions) :
       \E n \in 1..Len(active_fixed_expenses) :
         LET fe == active_fixed_expenses[n]
             dates == dates_to_apply(fe, ApplyYear, ApplyMonth)
         IN /\ db_tables.transactions[k].fixed_expense = fe.id
            /\ \E j \in 1..Len(dates) :
                 db_tables.transactions[k].occurred_at = <<ApplyYear, ApplyMonth, dates[j]>>

===========================================================================
